---- MODULE Spec2Model ----
(***************************************************************************)
(* genai-key-storage-lite: the main-process key store (ApiKeyServiceMain),  *)
(* its provider registry (ProviderService and the four validators), the    *)
(* IPC handlers in front of it, and the filesystem and safeStorage it      *)
(* drives.                                                                 *)
(*                                                                         *)
(* Strings that the code inspects (API keys, provider ids) are sequences   *)
(* of one-character strings, so that slice(-4), the validators' regular    *)
(* expressions and path.join are computed, not assumed.                    *)
(***************************************************************************)
EXTENDS Naturals, Sequences, FiniteSets, TLC

\* ------------------------------------------------------------------------
\* Characters and strings
\* ------------------------------------------------------------------------

Upper == {"A","B","C","D","E","F","G","H","I","J","K","L","M",
          "N","O","P","Q","R","S","T","U","V","W","X","Y","Z"}

Lower == {"a","b","c","d","e","f","g","h","i","j","k","l","m",
          "n","o","p","q","r","s","t","u","v","w","x","y","z"}

Digit == {"0","1","2","3","4","5","6","7","8","9"}

\* The character class [A-Za-z0-9-_] shared by the four validation patterns.
BodyChars == Upper \cup Lower \cup Digit \cup {"-", "_"}

\* n copies of the character c ('a'.repeat(n)).
Rep(c, n) == [k \in 1..n |-> c]

Min(a, b) == IF a <= b THEN a ELSE b

\* String.prototype.slice(-n): the last n characters, the whole string when
\* it is shorter than n.
SliceLast(s, n) == SubSeq(s, Len(s) - Min(n, Len(s)) + 1, Len(s))

\* s.startsWith(p)
StartsWith(s, p) == Len(s) >= Len(p) /\ SubSeq(s, 1, Len(p)) = p

\* s.endsWith(p)
EndsWith(s, p) == Len(s) >= Len(p) /\ SubSeq(s, Len(s) - Len(p) + 1, Len(s)) = p

\* The rest of s after a prefix of length n.
After(s, n) == SubSeq(s, n + 1, Len(s))

\* The pattern had it no '$': whatever follows a long enough body is accepted.
MatchesPatternUnanchored(k, prefix, lo, hi) ==
    /\ StartsWith(k, prefix)
    /\ Len(k) >= Len(prefix) + lo
    /\ \A n \in 1..lo : k[Len(prefix) + n] \in BodyChars

\* /^<prefix>[A-Za-z0-9-_]{lo,hi}$/ : prefix, then a body of lo..hi allowed
\* characters and nothing else (hi = 0 stands for "no upper limit").
MatchesPattern(k, prefix, lo, hi) ==
    /\ StartsWith(k, prefix)
    /\ LET body == After(k, Len(prefix))
       IN  /\ Len(body) >= lo
           /\ (hi = 0 \/ Len(body) <= hi)
           /\ \A n \in 1..Len(body) : body[n] \in BodyChars

\* ------------------------------------------------------------------------
\* Provider registry
\* ------------------------------------------------------------------------

OpenAIMinBody == 32
OpenAIMaxBody == 200
AnthropicMinBody == 24
GeminiMinBody == 35
GeminiMaxBody == 45
MistralMinBody == 32
MistralMaxBody == 64

OpenAI == <<"o","p","e","n","a","i">>
Anthropic == <<"a","n","t","h","r","o","p","i","c">>
Gemini == <<"g","e","m","i","n","i">>
Mistral == <<"m","i","s","t","r","a","l">>

\* /^(sk|org)-[A-Za-z0-9-_]{32,200}$/
OpenAIValidate(k) ==
    \/ MatchesPattern(k, <<"s","k","-">>, OpenAIMinBody, OpenAIMaxBody)
    \/ MatchesPattern(k, <<"o","r","g","-">>, OpenAIMinBody, OpenAIMaxBody)

\* /^sk-ant-[A-Za-z0-9-_]{24,}$/
AnthropicValidate(k) ==
    MatchesPattern(k, <<"s","k","-","a","n","t","-">>, AnthropicMinBody, 0)

\* /^AI[A-Za-z0-9_-]{35,45}$/
GeminiValidate(k) ==
    MatchesPattern(k, <<"A","I">>, GeminiMinBody, GeminiMaxBody)

\* /^[A-Za-z0-9-_]{32,64}$/
MistralValidate(k) ==
    MatchesPattern(k, <<>>, MistralMinBody, MistralMaxBody)

\* ProviderService.registerBuiltInProviders: the ids in the registry.
Registered == {OpenAI, Anthropic, Gemini, Mistral}

\* ProviderService.getProvider(id) is defined.
GetProvider(id) == id \in Registered

\* ProviderService.validateApiKey: false for an unknown provider.
ValidateApiKey(id, k) ==
    IF ~GetProvider(id) THEN FALSE
    ELSE IF id = OpenAI THEN OpenAIValidate(k)
    ELSE IF id = Anthropic THEN AnthropicValidate(k)
    ELSE IF id = Gemini THEN GeminiValidate(k)
    ELSE MistralValidate(k)

\* ------------------------------------------------------------------------
\* Paths (path.join on POSIX): a path is a sequence of segments
\* ------------------------------------------------------------------------

UserDataPath == << <<"u","s","e","r","D","a","t","a">> >>

DotJson == <<".","j","s","o","n">>

\* Splits a string on '/'.
RECURSIVE SplitAt(_, _, _)
SplitAt(s, n, cur) ==
    IF n > Len(s) THEN <<cur>>
    ELSE IF s[n] = "/" THEN <<cur>> \o SplitAt(s, n + 1, <<>>)
    ELSE SplitAt(s, n + 1, Append(cur, s[n]))

Split(s) == SplitAt(s, 1, <<>>)

\* path.normalize on the segments: '' and '.' vanish, '..' removes the
\* segment before it.
RECURSIVE NormalizeFrom(_, _, _)
NormalizeFrom(segs, n, acc) ==
    IF n > Len(segs) THEN acc
    ELSE IF segs[n] = <<>> \/ segs[n] = <<".">> THEN NormalizeFrom(segs, n + 1, acc)
    ELSE IF segs[n] = <<".", ".">>
         THEN NormalizeFrom(segs, n + 1,
                            IF Len(acc) = 0 THEN acc ELSE SubSeq(acc, 1, Len(acc) - 1))
    ELSE NormalizeFrom(segs, n + 1, Append(acc, segs[n]))

\* path.join(a, b): concatenate, then normalize.
PathJoin(dir, name) == NormalizeFrom(dir \o Split(name), 1, <<>>)

\* this.storageDir = path.join(userDataPath, 'secure_api_keys')
StorageDir ==
    PathJoin(UserDataPath, <<"s","e","c","u","r","e","_","a","p","i","_","k","e","y","s">>)

\* ApiKeyServiceMain.getFilePath: path.join(storageDir, `${providerId}.json`),
\* with no check of providerId.
GetFilePath(id) == PathJoin(StorageDir, id \o DotJson)

\* The directory a path lies in.
DirName(p) == SubSeq(p, 1, Len(p) - 1)

\* path.basename(file, '.json')
BaseName(file) ==
    IF EndsWith(file, DotJson) THEN SubSeq(file, 1, Len(file) - Len(DotJson)) ELSE file

\* ------------------------------------------------------------------------
\* safeStorage and Buffer: tagged values, so that only what encryptString
\* produced decrypts, and only what toString('base64') produced decodes to it
\* ------------------------------------------------------------------------

\* safeStorage.encryptString(plaintext)
EncryptString(s) == <<"cipher", s>>

\* safeStorage.decryptString(buffer): throws on anything encryptString did
\* not produce.
DecryptThrows(buf) == buf[1] # "cipher"

DecryptString(buf) == buf[2]

\* buffer.toString('base64')
ToBase64(buf) == <<"b64", buf>>

\* Buffer.from(str, 'base64'): never throws; a string that is no encoding of a
\* buffer decodes to bytes nothing can decrypt.
FromBase64(str) == IF str[1] = "b64" THEN str[2] ELSE <<"bytes", str>>

\* ------------------------------------------------------------------------
\* JSON records and file contents
\* ------------------------------------------------------------------------

\* A field the parsed object does not have.
Undefined == <<"undefined">>

\* JavaScript truthiness of a field holding a string: undefined and '' are falsy.
Truthy(v) == v # Undefined /\ v # <<>>

\* Characters a field takes in the JSON text: its name, quotes, colon and
\* comma, and its value; nothing when the field is absent.
FieldOverhead == 6

\* The length of a string value as written: an encoded buffer grows with the
\* plaintext it encrypts.
ValueLen(v) ==
    IF Len(v) = 0 THEN 0
    ELSE IF v[1] = "b64" THEN Len(v[2][2])
    ELSE IF v[1] = "text" THEN Len(v[2])
    ELSE Len(v)

FieldSize(name, v) ==
    IF v = Undefined THEN 0 ELSE Len(name) + FieldOverhead + ValueLen(v)

\* A file's bytes: a JSON text (ok, obj) of `size` characters followed by
\* `junk` characters left over from a longer text written before, or text that
\* is no JSON at all (ok = FALSE).
EmptyText == [ok |-> FALSE,
              obj |-> [encryptedKey |-> Undefined, lastFourChars |-> Undefined],
              size |-> 0, junk |-> 0]

\* JSON.stringify({encryptedKey, lastFourChars})
Stringify(obj) ==
    [ok |-> TRUE, obj |-> obj,
     size |-> 2 + FieldSize(<<"e","n","c","r","y","p","t","e","d","K","e","y">>, obj.encryptedKey)
                + FieldSize(<<"l","a","s","t","F","o","u","r","C","h","a","r","s">>, obj.lastFourChars),
     junk |-> 0]

\* JSON.parse throws on an empty text, on text that is no JSON and on
\* characters after the closing brace.
ParseThrows(text) == ~text.ok \/ text.size = 0 \/ text.junk > 0

JsonParse(text) == text.obj

NoFile == [exists |-> FALSE, text |-> EmptyText]

\* open(path, 'w'): O_CREAT | O_TRUNC
Truncated == [exists |-> TRUE, text |-> EmptyText]

\* write(fd, text) at offset 0 of a file that holds `old`: the new text, then
\* whatever the old bytes were beyond its end.
WriteOver(old, text) ==
    [exists |-> TRUE,
     text |-> [text EXCEPT !.junk =
                  IF old.exists /\ old.text.size + old.text.junk > text.size
                  THEN old.text.size + old.text.junk - text.size ELSE 0]]

\* ------------------------------------------------------------------------
\* Inputs of the model
\* ------------------------------------------------------------------------

\* An identifier that is not in the registry and climbs out of the storage
\* directory, and one that is only not in the registry.
Traversal == <<".",".","/","x">>
Unlisted == <<"x">>

Ids == {OpenAI, Mistral, Traversal, Unlisted}

\* './openai': an identifier other than 'openai' that getFilePath resolves to
\* openai's path.
Alias == <<".","/">> \o OpenAI

\* `sk-${'a'.repeat(32)}`, a key of the same length ending in 'bbbb', a longer
\* key with KeyA's last four characters, and the tests' 'invalid-key'.
KeyA == <<"s","k","-">> \o Rep("a", OpenAIMinBody)
KeyB == <<"s","k","-">> \o Rep("a", OpenAIMinBody - 4) \o Rep("b", 4)
KeyLong == <<"s","k","-","z">> \o Rep("a", OpenAIMinBody)
KeyBad == <<"i","n","v","a","l","i","d","-","k","e","y">>

Keys == {KeyA, KeyB, KeyLong, KeyBad}

\* storeKey is called with every key for openai, and with KeyA for the others.
StoreInputs == ({OpenAI} \X Keys) \cup (Ids \X {KeyA})

\* What the operation handed to withDecryptedKey does with the key: return it,
\* return something else, or reject.
Callbacks == {"identity", "constant", "throws"}

DecryptInputs == ({OpenAI} \X Callbacks) \cup (Ids \X {"identity"})

\* The calls that can be in flight at once.
Calls == {"c1", "c2"}

\* Calls made over the whole run.
MaxOps == 2

\* ------------------------------------------------------------------------
\* Values the operations settle with
\* ------------------------------------------------------------------------

Pending == <<"pending">>
Resolved(v) == <<"resolved", v>>
Rejected(name, msg) == <<"rejected", name, msg>>

Void == <<"void">>
Bool(b) == <<"bool", b>>
Str(s) == <<"string", s>>
IdList(S) == <<"ids", S>>
\* { isStored, lastFourChars? }
Info(stored, l4) == <<"info", stored, l4>>

ASE == "ApiKeyStorageError"

InvalidFormatMsg(id) == <<"Invalid API key format for provider", id>>
UnavailableMsg == <<"OS-level encryption is not available">>
StoreFailedMsg(id, inner) == <<"Failed to store API key for", id, inner>>
NotUsableMsg(id) ==
    <<"API key not found, could not be decrypted, or was invalid for provider", id>>

\* ------------------------------------------------------------------------
\* State
\* ------------------------------------------------------------------------

VARIABLES
    loadedKeyMetadata,   \* the Map: id -> lastFourChars, Undefined when absent
    files,               \* the filesystem: path -> file
    encryptionAvailable, \* what safeStorage.isEncryptionAvailable() answers
    readOnly,            \* the filesystem refuses to create, write and unlink
    calls,               \* the operations in flight, and how each last ended
    scan,                \* loadAllKeysFromDisk, started by the constructor
    last,                \* per id, the last storeKey / deleteKey that completed
    started              \* calls made so far

vars == <<loadedKeyMetadata, files, encryptionAvailable, readOnly, calls, scan, last, started>>

Paths == {GetFilePath(i) : i \in Ids}

NoId == <<>>
Unknown == <<"unknown">>

InFlight(c) == calls[c].pc \notin {"idle", "done"}

\* The other calls in flight on the same identifier.
Others(c, i) == {d \in Calls \ {c} : InFlight(d) /\ calls[d].id = i}

IdleCall ==
    [op |-> "none", id |-> NoId, key |-> <<>>, cb |-> "none", pc |-> "idle",
     buf |-> NoFile, arg |-> Undefined, res |-> Pending, io |-> {}, log |-> "none",
     orphan |-> FALSE, pre |-> Unknown, conc |-> {}, reply |-> Pending]

\* A call as it is made. pre and conc are bookkeeping of the model: what last
\* completed on the identifier, and which operations overlap this one.
NewCall(c, op, i, k, cb) ==
    [IdleCall EXCEPT
        !.op = op, !.id = i, !.key = k, !.cb = cb,
        !.pre = IF i \in Ids THEN last[i] ELSE Unknown,
        !.conc = {calls[d].op : d \in Others(c, i)}
                 \cup (IF scan.pc # "done" THEN {"scan"} ELSE {})]

\* calls once c has been made as rec: the calls it overlaps learn of it.
Started(c, rec) ==
    [d \in Calls |->
        IF d = c THEN rec
        ELSE IF InFlight(d) /\ calls[d].id = rec.id
             THEN [calls[d] EXCEPT !.conc = @ \cup {rec.op}]
        ELSE calls[d]]

\* calls once c has settled with res.
Settled(c, res) ==
    [calls EXCEPT ![c].pc = "done", ![c].res = res, ![c].buf = NoFile]

\* A call can be made on a free slot while fewer than MaxOps were.
CanStart(c) == ~InFlight(c) /\ started < MaxOps

\* ------------------------------------------------------------------------
\* storeKey
\* ------------------------------------------------------------------------

\* const lastFourChars = apiKey.slice(-4)
LastFourChars(apiKey) == SliceLast(apiKey, 4)

\* storeKey had it encrypted lastFourChars in place of apiKey.
DataToStoreOfSuffix(apiKey) ==
    [encryptedKey |-> ToBase64(EncryptString(LastFourChars(apiKey))),
     lastFourChars |-> LastFourChars(apiKey)]

\* dataToStore = { encryptedKey: <base64 of the encrypted key>, lastFourChars }
DataToStore(apiKey) ==
    [encryptedKey |-> ToBase64(EncryptString(apiKey)),
     lastFourChars |-> LastFourChars(apiKey)]

\* storeKey had it asked safeStorage before validating the key.
StoreKeyCheckAvailabilityFirst(providerId, apiKey) ==
    IF ~encryptionAvailable THEN "unavailable"
    ELSE IF ~ValidateApiKey(providerId, apiKey) THEN "invalid"
    ELSE "write"

\* storeKey had it not asked safeStorage at all.
StoreKeyCheckFormatOnly(providerId, apiKey) ==
    IF ~ValidateApiKey(providerId, apiKey) THEN "invalid" ELSE "write"

\* The two checks storeKey makes before its try block, in their order.
StoreKeyCheck(providerId, apiKey) ==
    IF ~ValidateApiKey(providerId, apiKey) THEN "invalid"
    ELSE IF ~encryptionAvailable THEN "unavailable"
    ELSE "write"

\* safeStorage.encryptString throws inside storeKey's try block: the catch wraps
\* the error, and writeFile is never called.
EncryptFailedMsg == "Error while encrypting the text provided to safeStorage.encryptString."

StoreKeyEncryptThrows(c, providerId, apiKey) ==
    /\ CanStart(c)
    /\ StoreKeyCheck(providerId, apiKey) = "write"
    /\ calls' = Started(c, [NewCall(c, "storeKey", providerId, apiKey, "none")
                               EXCEPT !.pc = "done",
                                      !.io = {"isEncryptionAvailable", "encryptString"},
                                      !.res = Rejected(ASE, StoreFailedMsg(providerId,
                                                                           EncryptFailedMsg))])
    /\ last' = [last EXCEPT ![providerId] = Unknown]
    /\ started' = started + 1
    /\ UNCHANGED <<loadedKeyMetadata, files, encryptionAvailable, readOnly, scan>>

\* storeKey had it set the cache entry before calling writeFile.
StoreKeyCacheFirst(c, providerId, apiKey) ==
    /\ CanStart(c)
    /\ LET new == NewCall(c, "storeKey", providerId, apiKey, "none")
           check == StoreKeyCheck(providerId, apiKey)
           rec == IF check = "invalid"
                  THEN [new EXCEPT !.pc = "done",
                                   !.res = Rejected(ASE, InvalidFormatMsg(providerId))]
                  ELSE IF check = "unavailable"
                  THEN [new EXCEPT !.pc = "done",
                                   !.io = {"isEncryptionAvailable"},
                                   !.res = Rejected(ASE, UnavailableMsg)]
                  ELSE [new EXCEPT !.pc = "open",
                                   !.io = {"isEncryptionAvailable", "encryptString",
                                           "writeFile"}]
       IN  /\ calls' = Started(c, rec)
           /\ loadedKeyMetadata' =
                 IF check = "write"
                 THEN [loadedKeyMetadata EXCEPT ![providerId] = LastFourChars(apiKey)]
                 ELSE loadedKeyMetadata
    /\ last' = [last EXCEPT ![providerId] = Unknown]
    /\ started' = started + 1
    /\ UNCHANGED <<files, encryptionAvailable, readOnly, scan>>

\* storeKey up to its await: validate, check the encryption, encrypt, and call
\* fs.promises.writeFile.
StoreKey(c, providerId, apiKey) ==
    /\ CanStart(c)
    /\ LET new == NewCall(c, "storeKey", providerId, apiKey, "none")
           check == StoreKeyCheck(providerId, apiKey)
           rec == IF check = "invalid"
                  THEN [new EXCEPT !.pc = "done",
                                   !.res = Rejected(ASE, InvalidFormatMsg(providerId))]
                  ELSE IF check = "unavailable"
                  THEN [new EXCEPT !.pc = "done",
                                   !.io = {"isEncryptionAvailable"},
                                   !.res = Rejected(ASE, UnavailableMsg)]
                  ELSE [new EXCEPT !.pc = "open",
                                   !.io = {"isEncryptionAvailable", "encryptString",
                                           "writeFile"}]
       IN  calls' = Started(c, rec)
    /\ last' = [last EXCEPT ![providerId] = Unknown]
    /\ started' = started + 1
    /\ UNCHANGED <<loadedKeyMetadata, files, encryptionAvailable, readOnly, scan>>

\* writeFile opens the file with 'w': it is created or truncated, or the open
\* fails and storeKey's catch wraps the error.
StoreOpen(c) ==
    /\ calls[c].op = "storeKey" /\ calls[c].pc = "open"
    /\ IF readOnly
       THEN /\ calls' = Settled(c, Rejected(ASE, StoreFailedMsg(calls[c].id, "EACCES")))
            /\ files' = files
       ELSE /\ calls' = [calls EXCEPT ![c].pc = "write", ![c].orphan = FALSE]
            /\ files' = [files EXCEPT ![GetFilePath(calls[c].id)] = Truncated]
    /\ UNCHANGED <<loadedKeyMetadata, encryptionAvailable, readOnly, scan, last, started>>

\* writeFile writes JSON.stringify(dataToStore) through its descriptor; a file
\* unlinked since the open is no longer reachable by its path.
StoreWrite(c) ==
    /\ calls[c].op = "storeKey" /\ calls[c].pc = "write"
    /\ files' = IF calls[c].orphan THEN files
                ELSE [files EXCEPT ![GetFilePath(calls[c].id)] =
                         WriteOver(@, Stringify(DataToStore(calls[c].key)))]
    /\ calls' = [calls EXCEPT ![c].pc = "resume"]
    /\ UNCHANGED <<loadedKeyMetadata, encryptionAvailable, readOnly, scan, last, started>>

\* writeFile fails after its open, the disk being full: what it truncated
\* stays truncated, and storeKey's catch wraps the error.
StoreWriteFails(c) ==
    /\ calls[c].op = "storeKey" /\ calls[c].pc = "write"
    /\ calls' = Settled(c, Rejected(ASE, StoreFailedMsg(calls[c].id, "ENOSPC")))
    /\ UNCHANGED <<loadedKeyMetadata, files, encryptionAvailable, readOnly, scan, last, started>>

\* storeKey had it left the cache as it was after the write.
StoreResumeNoCache(c) ==
    /\ calls[c].op = "storeKey" /\ calls[c].pc = "resume"
    /\ calls' = Settled(c, Resolved(Void))
    /\ last' = [last EXCEPT ![calls[c].id] =
                    <<"stored", calls[c].key, calls[c].conc, scan.instance>>]
    /\ UNCHANGED <<loadedKeyMetadata, files, encryptionAvailable, readOnly, scan, started>>

\* After the await: this.loadedKeyMetadata.set(providerId, { lastFourChars }).
StoreResume(c) ==
    /\ calls[c].op = "storeKey" /\ calls[c].pc = "resume"
    /\ loadedKeyMetadata' =
          [loadedKeyMetadata EXCEPT ![calls[c].id] = LastFourChars(calls[c].key)]
    /\ calls' = Settled(c, Resolved(Void))
    /\ last' = [last EXCEPT ![calls[c].id] =
                    <<"stored", calls[c].key, calls[c].conc, scan.instance>>]
    /\ UNCHANGED <<files, encryptionAvailable, readOnly, scan, started>>

\* ------------------------------------------------------------------------
\* deleteKey
\* ------------------------------------------------------------------------

\* deleteKey up to its await: drop the cache entry, call fs.promises.unlink.
DeleteKey(c, providerId) ==
    /\ CanStart(c)
    /\ loadedKeyMetadata' = [loadedKeyMetadata EXCEPT ![providerId] = Undefined]
    /\ calls' = Started(c, [NewCall(c, "deleteKey", providerId, <<>>, "none")
                               EXCEPT !.pc = "unlink", !.io = {"unlink"}])
    /\ last' = [last EXCEPT ![providerId] = Unknown]
    /\ started' = started + 1
    /\ UNCHANGED <<files, encryptionAvailable, readOnly, scan>>

\* What unlink does: "ENOENT" when there is no file, "EACCES" when the
\* filesystem refuses, else the file is gone.
UnlinkResult(file) ==
    IF ~file.exists THEN "ENOENT" ELSE IF readOnly THEN "EACCES" ELSE "ok"

\* deleteKey had it thrown on every unlink error, ENOENT included.
DeleteUnlinkStrict(c) ==
    /\ calls[c].op = "deleteKey" /\ calls[c].pc = "unlink"
    /\ LET path == GetFilePath(calls[c].id)
           result == UnlinkResult(files[path])
       IN  /\ files' = IF result = "ok" THEN [files EXCEPT ![path] = NoFile] ELSE files
           /\ calls' = Settled(c, IF result = "ok" THEN Resolved(Void)
                                  ELSE Rejected(ASE, <<"Failed to delete API key for",
                                                       calls[c].id, result>>))
    /\ last' = [last EXCEPT ![calls[c].id] =
                    IF UnlinkResult(files[GetFilePath(calls[c].id)]) = "ok"
                    THEN <<"deleted", calls[c].conc>> ELSE Unknown]
    /\ UNCHANGED <<loadedKeyMetadata, encryptionAvailable, readOnly, scan, started>>

\* The unlink and the rest of deleteKey: an error is logged (not ENOENT) and
\* swallowed, and deleteKey resolves.
DeleteUnlink(c) ==
    /\ calls[c].op = "deleteKey" /\ calls[c].pc = "unlink"
    /\ LET path == GetFilePath(calls[c].id)
           result == UnlinkResult(files[path])
       IN  /\ files' = IF result = "ok" THEN [files EXCEPT ![path] = NoFile] ELSE files
           /\ calls' =
                 [d \in Calls |->
                     IF d = c
                     THEN [calls[c] EXCEPT !.pc = "done", !.res = Resolved(Void),
                                           !.log = IF result = "EACCES"
                                                   THEN "Failed to delete API key file"
                                                   ELSE "none"]
                     ELSE IF result = "ok" /\ calls[d].pc = "write"
                             /\ GetFilePath(calls[d].id) = path
                          THEN [calls[d] EXCEPT !.orphan = TRUE]
                     ELSE calls[d]]
    /\ last' = [last EXCEPT ![calls[c].id] = <<"deleted", calls[c].conc>>]
    /\ UNCHANGED <<loadedKeyMetadata, encryptionAvailable, readOnly, scan, started>>

\* ------------------------------------------------------------------------
\* Reading the metadata of a record
\* ------------------------------------------------------------------------

\* readFile, JSON.parse, `if (jsonData.lastFourChars)`: the field when the
\* file could be read and parsed and the field is truthy, else Undefined.
LastFourCharsIn(file) ==
    IF ~file.exists \/ ParseThrows(file.text) THEN Undefined
    ELSE IF Truthy(JsonParse(file.text).lastFourChars)
         THEN JsonParse(file.text).lastFourChars
    ELSE Undefined

\* ------------------------------------------------------------------------
\* isKeyStored
\* ------------------------------------------------------------------------

\* isKeyStored had it gone to the file without looking at the cache.
IsKeyStoredFromDisk(c, providerId) ==
    /\ CanStart(c)
    /\ calls' = Started(c, [NewCall(c, "isKeyStored", providerId, <<>>, "none")
                               EXCEPT !.pc = "access", !.io = {"access"}])
    /\ started' = started + 1
    /\ UNCHANGED <<loadedKeyMetadata, files, encryptionAvailable, readOnly, scan, last>>

\* isKeyStored up to its first await: true at once on a cache hit, else
\* fs.promises.access.
IsKeyStored(c, providerId) ==
    /\ CanStart(c)
    /\ LET new == NewCall(c, "isKeyStored", providerId, <<>>, "none")
       IN  calls' = Started(c,
              IF loadedKeyMetadata[providerId] # Undefined
              THEN [new EXCEPT !.pc = "done", !.res = Resolved(Bool(TRUE))]
              ELSE [new EXCEPT !.pc = "access", !.io = {"access"}])
    /\ started' = started + 1
    /\ UNCHANGED <<loadedKeyMetadata, files, encryptionAvailable, readOnly, scan, last>>

\* access fails: false. Else the file is read.
IsKeyStoredAccess(c) ==
    /\ calls[c].op = "isKeyStored" /\ calls[c].pc = "access"
    /\ calls' = IF ~files[GetFilePath(calls[c].id)].exists
                THEN Settled(c, Resolved(Bool(FALSE)))
                ELSE [calls EXCEPT ![c].pc = "read", ![c].io = @ \cup {"readFile"}]
    /\ UNCHANGED <<loadedKeyMetadata, files, encryptionAvailable, readOnly, scan, last, started>>

\* readFile completes with what the file holds now.
IsKeyStoredRead(c) ==
    /\ calls[c].op = "isKeyStored" /\ calls[c].pc = "read"
    /\ calls' = [calls EXCEPT ![c].pc = "resume", ![c].buf = files[GetFilePath(calls[c].id)]]
    /\ UNCHANGED <<loadedKeyMetadata, files, encryptionAvailable, readOnly, scan, last, started>>

\* isKeyStored had it answered true only when the metadata could be read.
IsKeyStoredAnswerParsed(file) == Bool(LastFourCharsIn(file) # Undefined)

\* The answer of isKeyStored once the file exists: true whether or not the
\* metadata could be read.
IsKeyStoredAnswer(file) == Bool(TRUE)

\* After the read: backfill the cache when the record has lastFourChars.
IsKeyStoredResume(c) ==
    /\ calls[c].op = "isKeyStored" /\ calls[c].pc = "resume"
    /\ LET l4 == LastFourCharsIn(calls[c].buf)
       IN  loadedKeyMetadata' =
              IF l4 # Undefined THEN [loadedKeyMetadata EXCEPT ![calls[c].id] = l4]
              ELSE loadedKeyMetadata
    /\ calls' = Settled(c, Resolved(IsKeyStoredAnswer(calls[c].buf)))
    /\ UNCHANGED <<files, encryptionAvailable, readOnly, scan, last, started>>

\* ------------------------------------------------------------------------
\* getStoredProviderIds
\* ------------------------------------------------------------------------

\* getStoredProviderIds had it listed the identifiers that have a file.
StoredProviderIdsOnDisk == {i \in Ids : files[GetFilePath(i)].exists}

\* Array.from(this.loadedKeyMetadata.keys())
StoredProviderIds == {i \in Ids : loadedKeyMetadata[i] # Undefined}

GetStoredProviderIds(c) ==
    /\ CanStart(c)
    /\ calls' = Started(c, [NewCall(c, "getStoredProviderIds", NoId, <<>>, "none")
                               EXCEPT !.pc = "done",
                                      !.res = Resolved(IdList(StoredProviderIds))])
    /\ started' = started + 1
    /\ UNCHANGED <<loadedKeyMetadata, files, encryptionAvailable, readOnly, scan, last>>

\* ------------------------------------------------------------------------
\* getApiKeyDisplayInfo
\* ------------------------------------------------------------------------

\* getApiKeyDisplayInfo up to its await: the cached metadata, else readFile.
GetApiKeyDisplayInfo(c, providerId) ==
    /\ CanStart(c)
    /\ LET new == NewCall(c, "getApiKeyDisplayInfo", providerId, <<>>, "none")
       IN  calls' = Started(c,
              IF loadedKeyMetadata[providerId] # Undefined
              THEN [new EXCEPT !.pc = "done",
                               !.res = Resolved(Info(TRUE, loadedKeyMetadata[providerId]))]
              ELSE [new EXCEPT !.pc = "read", !.io = {"readFile"}])
    /\ started' = started + 1
    /\ UNCHANGED <<loadedKeyMetadata, files, encryptionAvailable, readOnly, scan, last>>

DisplayInfoRead(c) ==
    /\ calls[c].op = "getApiKeyDisplayInfo" /\ calls[c].pc = "read"
    /\ calls' = [calls EXCEPT ![c].pc = "resume", ![c].buf = files[GetFilePath(calls[c].id)]]
    /\ UNCHANGED <<loadedKeyMetadata, files, encryptionAvailable, readOnly, scan, last, started>>

\* getApiKeyDisplayInfo had it decrypted the record and returned the key.
DisplayInfoWithKey(file) ==
    IF LastFourCharsIn(file) = Undefined THEN Info(FALSE, Undefined)
    ELSE IF ~Truthy(JsonParse(file.text).encryptedKey) THEN Info(TRUE, LastFourCharsIn(file))
    ELSE Info(TRUE, FromBase64(JsonParse(file.text).encryptedKey)[2])

\* getApiKeyDisplayInfo had it reported every existing file as stored.
DisplayInfoOfExisting(file) ==
    IF file.exists THEN Info(TRUE, LastFourCharsIn(file)) ELSE Info(FALSE, Undefined)

\* What the fallback path returns for the file it read.
DisplayInfoOf(file) ==
    IF LastFourCharsIn(file) # Undefined
    THEN Info(TRUE, LastFourCharsIn(file))
    ELSE Info(FALSE, Undefined)

\* After the read: update the cache and return the metadata, or isStored: false.
DisplayInfoResume(c) ==
    /\ calls[c].op = "getApiKeyDisplayInfo" /\ calls[c].pc = "resume"
    /\ LET l4 == LastFourCharsIn(calls[c].buf)
       IN  loadedKeyMetadata' =
              IF l4 # Undefined THEN [loadedKeyMetadata EXCEPT ![calls[c].id] = l4]
              ELSE loadedKeyMetadata
    /\ calls' = Settled(c, Resolved(DisplayInfoOf(calls[c].buf)))
    /\ UNCHANGED <<files, encryptionAvailable, readOnly, scan, last, started>>

\* ------------------------------------------------------------------------
\* withDecryptedKey
\* ------------------------------------------------------------------------

\* _getDecryptedKey had it returned the decrypted value without validating it.
GetDecryptedKeyUnvalidated(providerId, file) ==
    IF ~file.exists \/ ParseThrows(file.text)
    THEN [key |-> Undefined, log |-> "Failed to decrypt API key", io |-> {}]
    ELSE IF ~Truthy(JsonParse(file.text).encryptedKey)
    THEN [key |-> Undefined, log |-> "No encrypted key found in file", io |-> {}]
    ELSE IF ~encryptionAvailable
    THEN [key |-> Undefined, log |-> "OS-level encryption is not available for decryption",
          io |-> {"isEncryptionAvailable"}]
    ELSE IF DecryptThrows(FromBase64(JsonParse(file.text).encryptedKey))
    THEN [key |-> Undefined, log |-> "Failed to decrypt API key",
          io |-> {"isEncryptionAvailable", "decryptString"}]
    ELSE [key |-> DecryptString(FromBase64(JsonParse(file.text).encryptedKey)),
          log |-> "none", io |-> {"isEncryptionAvailable", "decryptString"}]

\* _getDecryptedKey from its readFile on, for the file as read: the key, or
\* Undefined (null) with the message it logs, and the safeStorage calls made.
GetDecryptedKey(providerId, file) ==
    IF ~file.exists \/ ParseThrows(file.text)
    THEN [key |-> Undefined, log |-> "Failed to decrypt API key", io |-> {}]
    ELSE IF ~Truthy(JsonParse(file.text).encryptedKey)
    THEN [key |-> Undefined, log |-> "No encrypted key found in file", io |-> {}]
    ELSE IF ~encryptionAvailable
    THEN [key |-> Undefined, log |-> "OS-level encryption is not available for decryption",
          io |-> {"isEncryptionAvailable"}]
    ELSE IF DecryptThrows(FromBase64(JsonParse(file.text).encryptedKey))
    THEN [key |-> Undefined, log |-> "Failed to decrypt API key",
          io |-> {"isEncryptionAvailable", "decryptString"}]
    ELSE IF ~ValidateApiKey(providerId,
                            DecryptString(FromBase64(JsonParse(file.text).encryptedKey)))
    THEN [key |-> Undefined, log |-> "Invalid API key format found",
          io |-> {"isEncryptionAvailable", "decryptString"}]
    ELSE [key |-> DecryptString(FromBase64(JsonParse(file.text).encryptedKey)),
          log |-> "none", io |-> {"isEncryptionAvailable", "decryptString"}]

\* What the operation does with the key it is given.
Operation(cb, apiKey) ==
    IF cb = "identity" THEN Resolved(Str(apiKey))
    ELSE IF cb = "constant" THEN Resolved(Str(<<"s","u","c","c","e","s","s">>))
    ELSE Rejected("Error", <<"operation failed">>)

\* withDecryptedKey had it wrapped the operation's error like storeKey's catch.
AfterOperationWrapped(outcome) ==
    IF outcome[1] = "rejected"
    THEN Rejected(ASE, <<"Failed to use API key", outcome[3]>>)
    ELSE outcome

\* try { return await operationUsingKey(key) } catch (error) { throw error }
AfterOperation(outcome) == outcome

\* withDecryptedKey up to the first await of _getDecryptedKey.
WithDecryptedKey(c, providerId, cb) ==
    /\ CanStart(c)
    /\ calls' = Started(c, [NewCall(c, "withDecryptedKey", providerId, <<>>, cb)
                               EXCEPT !.pc = "access", !.io = {"access"}])
    /\ started' = started + 1
    /\ UNCHANGED <<loadedKeyMetadata, files, encryptionAvailable, readOnly, scan, last>>

\* access fails: _getDecryptedKey returns null and withDecryptedKey throws.
WithDecryptedKeyAccess(c) ==
    /\ calls[c].op = "withDecryptedKey" /\ calls[c].pc = "access"
    /\ calls' = IF ~files[GetFilePath(calls[c].id)].exists
                THEN Settled(c, Rejected(ASE, NotUsableMsg(calls[c].id)))
                ELSE [calls EXCEPT ![c].pc = "read", ![c].io = @ \cup {"readFile"}]
    /\ UNCHANGED <<loadedKeyMetadata, files, encryptionAvailable, readOnly, scan, last, started>>

\* The read, the rest of _getDecryptedKey, and withDecryptedKey up to its call
\* of the operation: throw on null, else hand the key over.
WithDecryptedKeyRead(c) ==
    /\ calls[c].op = "withDecryptedKey" /\ calls[c].pc = "read"
    /\ LET got == GetDecryptedKey(calls[c].id, files[GetFilePath(calls[c].id)])
       IN  calls' =
              IF ~Truthy(got.key)
              THEN [calls EXCEPT ![c].pc = "done", ![c].log = got.log,
                                 ![c].io = @ \cup got.io,
                                 ![c].res = Rejected(ASE, NotUsableMsg(calls[c].id))]
              ELSE [calls EXCEPT ![c].pc = "operation", ![c].io = @ \cup got.io,
                                 ![c].arg = got.key]
    /\ UNCHANGED <<loadedKeyMetadata, files, encryptionAvailable, readOnly, scan, last, started>>

\* The operation settles and withDecryptedKey settles with it.
WithDecryptedKeyOperation(c) ==
    /\ calls[c].op = "withDecryptedKey" /\ calls[c].pc = "operation"
    /\ calls' = Settled(c, AfterOperation(Operation(calls[c].cb, calls[c].arg)))
    /\ UNCHANGED <<loadedKeyMetadata, files, encryptionAvailable, readOnly, scan, last, started>>

\* ------------------------------------------------------------------------
\* loadAllKeysFromDisk, the scan the constructor starts
\* ------------------------------------------------------------------------

\* readdir(storageDir), filtered to the names ending in '.json'.
KeyFiles ==
    {p[Len(p)] : p \in {q \in Paths : DirName(q) = StorageDir /\ files[q].exists
                                       /\ EndsWith(q[Len(q)], DotJson)}}

ScanReaddir ==
    /\ scan.pc = "readdir"
    /\ scan' = [scan EXCEPT !.pc = "loop", !.todo = KeyFiles]
    /\ UNCHANGED <<loadedKeyMetadata, files, encryptionAvailable, readOnly, calls, last, started>>

\* The loop had it read every '.json' file, registered provider or not.
ScanNextAll ==
    /\ scan.pc = "loop"
    /\ IF scan.todo = {}
       THEN scan' = [scan EXCEPT !.pc = "done"]
       ELSE \E keyFile \in scan.todo :
               scan' = [scan EXCEPT !.todo = @ \ {keyFile}, !.pc = "read",
                                    !.providerId = BaseName(keyFile)]
    /\ UNCHANGED <<loadedKeyMetadata, files, encryptionAvailable, readOnly, calls, last, started>>

\* One turn of the for loop up to its await: the next file, skipped when its
\* name is no registered provider, else read. The loop ends with the list.
ScanNext ==
    /\ scan.pc = "loop"
    /\ IF scan.todo = {}
       THEN scan' = [scan EXCEPT !.pc = "done"]
       ELSE \E keyFile \in scan.todo :
               scan' = IF ~GetProvider(BaseName(keyFile))
                       THEN [scan EXCEPT !.todo = @ \ {keyFile}]
                       ELSE [scan EXCEPT !.todo = @ \ {keyFile}, !.pc = "read",
                                         !.providerId = BaseName(keyFile)]
    /\ UNCHANGED <<loadedKeyMetadata, files, encryptionAvailable, readOnly, calls, last, started>>

ScanRead ==
    /\ scan.pc = "read"
    /\ scan' = [scan EXCEPT !.pc = "resume",
                            !.buf = files[PathJoin(StorageDir, scan.providerId \o DotJson)]]
    /\ UNCHANGED <<loadedKeyMetadata, files, encryptionAvailable, readOnly, calls, last, started>>

\* The loop had it been inside the try: the first file without metadata ends it.
ScanResumeAbort ==
    /\ scan.pc = "resume"
    /\ LET l4 == LastFourCharsIn(scan.buf)
       IN  /\ loadedKeyMetadata' =
                 IF l4 # Undefined THEN [loadedKeyMetadata EXCEPT ![scan.providerId] = l4]
                 ELSE loadedKeyMetadata
           /\ scan' = IF l4 # Undefined
                      THEN [scan EXCEPT !.pc = "loop", !.buf = NoFile, !.providerId = NoId]
                      ELSE [scan EXCEPT !.pc = "done", !.todo = {}, !.buf = NoFile,
                                        !.providerId = NoId]
    /\ UNCHANGED <<files, encryptionAvailable, readOnly, calls, last, started>>

\* The loop had it read each record and set no cache entry.
ScanResumeForget ==
    /\ scan.pc = "resume"
    /\ scan' = [scan EXCEPT !.pc = "loop", !.buf = NoFile, !.providerId = NoId]
    /\ UNCHANGED <<loadedKeyMetadata, files, encryptionAvailable, readOnly, calls, last, started>>

\* After the read: set the cache entry when the record has lastFourChars; a
\* failed read or parse is logged and the loop goes on.
ScanResume ==
    /\ scan.pc = "resume"
    /\ LET l4 == LastFourCharsIn(scan.buf)
       IN  loadedKeyMetadata' =
              IF l4 # Undefined THEN [loadedKeyMetadata EXCEPT ![scan.providerId] = l4]
              ELSE loadedKeyMetadata
    /\ scan' = [scan EXCEPT !.pc = "loop", !.buf = NoFile, !.providerId = NoId]
    /\ UNCHANGED <<files, encryptionAvailable, readOnly, calls, last, started>>

\* ------------------------------------------------------------------------
\* The IPC handlers
\* ------------------------------------------------------------------------

\* The text each handler puts before the message of an error it wraps.
IpcPrefix(op) ==
    CASE op = "storeKey" -> "Failed to store API key"
      [] op = "deleteKey" -> "Failed to delete API key"
      [] op = "isKeyStored" -> "Failed to check API key status"
      [] op = "getStoredProviderIds" -> "Failed to get stored providers"
      [] op = "getApiKeyDisplayInfo" -> "Failed to get API key display info"

\* error instanceof Error ? error.message : 'Unknown error'
ErrorMessage(res) == IF res[2] = "nonError" THEN <<"Unknown error">> ELSE res[3]

\* The handlers' catch had it wrapped every error, ApiKeyStorageError or not.
IpcResponseWrapAll(op, res) ==
    IF res[1] = "rejected"
    THEN Rejected(ASE, <<IpcPrefix(op), ErrorMessage(res)>>)
    ELSE IF op \in {"storeKey", "deleteKey"} THEN Resolved(<<"success", TRUE>>)
    ELSE res

\* What a handler of registerSecureApiKeyIpc answers when the service method it
\* awaits settles with res: { success: true } for storeKey and deleteKey, the
\* value itself for the others; an ApiKeyStorageError is rethrown, any other
\* error is wrapped in one.
IpcResponse(op, res) ==
    IF res[1] = "rejected"
    THEN IF res[2] = ASE THEN res
         ELSE Rejected(ASE, <<IpcPrefix(op), ErrorMessage(res)>>)
    ELSE IF op \in {"storeKey", "deleteKey"} THEN Resolved(<<"success", TRUE>>)
    ELSE res

\* The operations that have a handler, and the arguments the renderer may send.
HandlerOps ==
    {"storeKey", "deleteKey", "isKeyStored", "getStoredProviderIds", "getApiKeyDisplayInfo"}

HandlerInputs ==
    {<<"storeKey", i, KeyA>> : i \in Ids}
    \cup {<<op, i, <<>>>> : op \in {"deleteKey", "isKeyStored", "getApiKeyDisplayInfo"},
                            i \in Ids}
    \cup {<<"getStoredProviderIds", NoId, <<>>>>}

\* How the service method a handler calls may settle, the service being any
\* object the handlers were registered with: its values, an
\* ApiKeyStorageError, another Error, a thrown value that is no Error.
ServiceOutcomes(op) ==
    (CASE op \in {"storeKey", "deleteKey"} -> {Resolved(Void)}
       [] op = "isKeyStored" -> {Resolved(Bool(TRUE)), Resolved(Bool(FALSE))}
       [] op = "getStoredProviderIds" -> {Resolved(IdList({})), Resolved(IdList({OpenAI}))}
       [] op = "getApiKeyDisplayInfo" ->
            {Resolved(Info(FALSE, Undefined)), Resolved(Info(TRUE, LastFourChars(KeyA)))})
    \cup {Rejected(ASE, <<"Validation failed">>),
          Rejected("Error", <<"Filesystem error">>),
          Rejected("nonError", <<>>)}

\* A handler is invoked: inside its try it calls the service method with the
\* arguments as they came.
HandlerInvoke(c, op, providerId, apiKey) ==
    /\ CanStart(c)
    /\ calls' = Started(c, [NewCall(c, op, providerId, apiKey, "none") EXCEPT !.pc = "service"])
    /\ started' = started + 1
    /\ UNCHANGED <<loadedKeyMetadata, files, encryptionAvailable, readOnly, scan, last>>

\* The service method settles.
ServiceSettles(c, outcome) ==
    /\ calls[c].pc = "service"
    /\ outcome \in ServiceOutcomes(calls[c].op)
    /\ calls' = [calls EXCEPT ![c].pc = "settled", ![c].res = outcome]
    /\ UNCHANGED <<loadedKeyMetadata, files, encryptionAvailable, readOnly, scan, last, started>>

\* The handler resumes after its await and returns or throws.
HandlerReplies(c) ==
    /\ calls[c].pc = "settled"
    /\ calls' = [calls EXCEPT ![c].pc = "done",
                              ![c].reply = IpcResponse(calls[c].op, calls[c].res)]
    /\ UNCHANGED <<loadedKeyMetadata, files, encryptionAvailable, readOnly, scan, last, started>>

\* ------------------------------------------------------------------------
\* ApiKeyServiceRenderer.storeKey, over the bridge of the preload script
\* ------------------------------------------------------------------------

\* How bridge.storeKey may settle: { success: true }, { success: false }, an
\* ApiKeyStorageError, an error object with a message, a thrown value without.
BridgeOutcomes ==
    {Resolved(<<"success", TRUE>>), Resolved(<<"success", FALSE>>),
     Rejected(ASE, <<"Validation failed">>),
     Rejected("Error", <<"IPC error">>),
     Rejected("nonError", <<>>)}

\* The renderer's storeKey had it sent the key to the bridge unvalidated.
RendererStoreKeyUnvalidated(c, providerId, apiKey) ==
    /\ CanStart(c)
    /\ calls' = Started(c, [NewCall(c, "storeKey", providerId, apiKey, "none")
                               EXCEPT !.pc = "bridge", !.io = {"bridge.storeKey"}])
    /\ started' = started + 1
    /\ UNCHANGED <<loadedKeyMetadata, files, encryptionAvailable, readOnly, scan, last>>

\* The renderer's storeKey up to its await: the client-side validation, then
\* bridge.storeKey.
RendererStoreKey(c, providerId, apiKey) ==
    /\ CanStart(c)
    /\ LET new == NewCall(c, "storeKey", providerId, apiKey, "none")
       IN  calls' = Started(c,
              IF ~ValidateApiKey(providerId, apiKey)
              THEN [new EXCEPT !.pc = "done",
                               !.reply = Rejected(ASE, InvalidFormatMsg(providerId))]
              ELSE [new EXCEPT !.pc = "bridge", !.io = {"bridge.storeKey"}])
    /\ started' = started + 1
    /\ UNCHANGED <<loadedKeyMetadata, files, encryptionAvailable, readOnly, scan, last>>

\* bridge.storeKey settles.
BridgeSettles(c, outcome) ==
    /\ calls[c].pc = "bridge"
    /\ calls' = [calls EXCEPT ![c].pc = "bridged", ![c].res = outcome]
    /\ UNCHANGED <<loadedKeyMetadata, files, encryptionAvailable, readOnly, scan, last, started>>

\* What the renderer's storeKey gives its caller for the bridge's outcome.
RendererStoreReply(outcome) ==
    IF outcome[1] = "resolved"
    THEN IF outcome[2] = <<"success", TRUE>> THEN Resolved(Void)
         ELSE Rejected(ASE, <<"Failed to store API key">>)
    ELSE IF outcome[2] = ASE THEN outcome
    ELSE IF outcome[2] = "nonError"
    THEN Rejected(ASE, <<"Failed to store API key due to an unexpected error">>)
    ELSE Rejected(ASE, outcome[3])

\* The renderer's storeKey after its await.
RendererStoreResume(c) ==
    /\ calls[c].pc = "bridged"
    /\ calls' = [calls EXCEPT ![c].pc = "done", ![c].reply = RendererStoreReply(calls[c].res)]
    /\ UNCHANGED <<loadedKeyMetadata, files, encryptionAvailable, readOnly, scan, last, started>>

\* ------------------------------------------------------------------------
\* ApiKeyServiceRenderer.validateApiKeyFormat: the registry's validateApiKey
\* ------------------------------------------------------------------------

\* Keys around the limits of the four patterns: a prefix, a body of one
\* character repeated, and the same with the last character replaced.
SamplePrefixes ==
    {<<>>, <<"s","k","-">>, <<"o","r","g","-">>, <<"s","k","-","a","n","t","-">>,
     <<"A","I">>, <<"p","k","-">>}

SampleLengths ==
    {AnthropicMinBody - 1, AnthropicMinBody, MistralMinBody - 1, MistralMinBody,
     GeminiMinBody - 1, GeminiMinBody, GeminiMaxBody, GeminiMaxBody + 1,
     MistralMaxBody, MistralMaxBody + 1, OpenAIMaxBody, OpenAIMaxBody + 1}

SampleEndings == {<<"a">>, <<"_">>, <<"-">>, <<"9">>, <<"Z">>, <<".">>, <<"\n">>, <<" ">>}

SampleKeys ==
    {prefix \o Rep("a", n - 1) \o e :
        prefix \in SamplePrefixes, n \in SampleLengths, e \in SampleEndings}

SampleIds == Registered \cup {Unlisted, Traversal}

\* validateApiKeyFormat(providerId, apiKey): synchronous, the registry's answer.
ValidateApiKeyFormat(c) ==
    /\ calls[c].op = "validateApiKeyFormat" /\ calls[c].pc = "called"
    /\ calls' = [calls EXCEPT
                    ![c].pc = "done",
                    ![c].res = Resolved(Bool(ValidateApiKey(calls[c].id, calls[c].key)))]
    /\ UNCHANGED <<loadedKeyMetadata, files, encryptionAvailable, readOnly, scan, last, started>>

\* ------------------------------------------------------------------------
\* The environment
\* ------------------------------------------------------------------------

\* The OS keyring is locked or unlocked.
ToggleEncryption ==
    /\ encryptionAvailable' = ~encryptionAvailable
    /\ UNCHANGED <<loadedKeyMetadata, files, readOnly, calls, scan, last, started>>

\* The storage directory loses or regains write permission.
ToggleReadOnly ==
    /\ readOnly' = ~readOnly
    /\ UNCHANGED <<loadedKeyMetadata, files, encryptionAvailable, calls, scan, last, started>>

\* Files found under the storage root when the service is constructed: what an
\* earlier run of storeKey left, and records it did not write.
StoredFile(apiKey) == [exists |-> TRUE, text |-> Stringify(DataToStore(apiKey))]

RecordFile(encryptedKey, lastFourChars) ==
    [exists |-> TRUE,
     text |-> Stringify([encryptedKey |-> encryptedKey, lastFourChars |-> lastFourChars])]

\* '{ not json }'
NotJsonFile == [exists |-> TRUE, text |-> [EmptyText EXCEPT !.size = 12]]

\* { encryptedKey: ... } without lastFourChars
NoMetadataFile == RecordFile(ToBase64(EncryptString(KeyA)), Undefined)

\* { lastFourChars: 'xxxx' } without encryptedKey
NoBlobFile == RecordFile(Undefined, Rep("x", 4))

\* { encryptedKey: 'some-key', lastFourChars: 'xxxx' }: nothing safeStorage made
UndecryptableFile ==
    RecordFile(<<"text", <<"s","o","m","e","-","k","e","y">>>>, Rep("x", 4))

\* A record whose key decrypts to 'invalid-key'
BadKeyFile == StoredFile(KeyBad)

\* A record whose lastFourChars is the whole key
LongMetadataFile == RecordFile(ToBase64(EncryptString(KeyA)), KeyA)

ForeignFiles ==
    {NotJsonFile, NoMetadataFile, NoBlobFile, UndecryptableFile, BadKeyFile, LongMetadataFile}

\* ------------------------------------------------------------------------
\* The specifications
\* ------------------------------------------------------------------------

\* loadAllKeysFromDisk as the constructor calls it; instance counts the services
\* constructed over the storage root so far.
NoScan ==
    [pc |-> "readdir", todo |-> {}, providerId |-> NoId, buf |-> NoFile, instance |-> 1]

\* The state the constructor leaves: an empty cache, the scan started, and the
\* directory as found, with `found` the files openai's path may hold and
\* `others` those mistral's may. A record with metadata at the other two paths.
ConstructedOn(found, others) ==
    /\ loadedKeyMetadata = [i \in Ids |-> Undefined]
    /\ files \in {f \in [Paths -> found \cup others \cup {NoBlobFile}] :
                      /\ f[GetFilePath(OpenAI)] \in found
                      /\ f[GetFilePath(Mistral)] \in others
                      /\ f[GetFilePath(Traversal)] = NoBlobFile
                      /\ f[GetFilePath(Unlisted)] = NoBlobFile}
    /\ encryptionAvailable \in BOOLEAN
    /\ readOnly \in BOOLEAN
    /\ calls = [c \in Calls |-> IdleCall]
    /\ scan = NoScan
    /\ last = [i \in Ids |-> Unknown]
    /\ started = 0

\* The same with nothing at mistral's path.
Constructed(found) == ConstructedOn(found, {NoFile})

\* The steps of the calls in flight, of the scan and of the environment.
Continue ==
    \/ \E c \in Calls : StoreOpen(c)
    \/ \E c \in Calls : StoreWrite(c)
    \/ \E c \in Calls : StoreResume(c)
    \/ \E c \in Calls : DeleteUnlink(c)
    \/ \E c \in Calls : IsKeyStoredAccess(c)
    \/ \E c \in Calls : IsKeyStoredRead(c)
    \/ \E c \in Calls : IsKeyStoredResume(c)
    \/ \E c \in Calls : DisplayInfoRead(c)
    \/ \E c \in Calls : DisplayInfoResume(c)
    \/ \E c \in Calls : WithDecryptedKeyAccess(c)
    \/ \E c \in Calls : WithDecryptedKeyRead(c)
    \/ \E c \in Calls : WithDecryptedKeyOperation(c)
    \/ ScanReaddir
    \/ ScanNext
    \/ ScanRead
    \/ ScanResume
    \/ ToggleEncryption
    \/ ToggleReadOnly

\* Spec: one caller that waits for the scan and for each call to settle, over
\* every identifier, every key and every file the directory may hold.
Init == Constructed({NoFile, StoredFile(KeyA)} \cup ForeignFiles)

Quiet == scan.pc = "done"

Next ==
    \/ \E in \in StoreInputs : Quiet /\ StoreKey("c1", in[1], in[2])
    \/ \E i \in Ids : Quiet /\ DeleteKey("c1", i)
    \/ \E i \in Ids : Quiet /\ IsKeyStored("c1", i)
    \/ Quiet /\ GetStoredProviderIds("c1")
    \/ \E i \in Ids : Quiet /\ GetApiKeyDisplayInfo("c1", i)
    \/ \E in \in DecryptInputs : Quiet /\ WithDecryptedKey("c1", in[1], in[2])
    \/ Continue

Spec == Init /\ [][Next]_vars

\* Services constructed over the storage root, one after the other.
MaxInstances == 2

\* The process ends, whatever is in flight with it, and a new ApiKeyServiceMain
\* is constructed over the same userDataPath: an empty cache, a new scan, the
\* files as they are.
Restart ==
    /\ scan.instance < MaxInstances
    /\ started > 0
    /\ loadedKeyMetadata' = [i \in Ids |-> Undefined]
    /\ calls' = [c \in Calls |-> IdleCall]
    /\ scan' = [NoScan EXCEPT !.instance = scan.instance + 1]
    /\ UNCHANGED <<files, encryptionAvailable, readOnly, last, started>>

\* SpecRestart: Spec's caller, and the service constructed anew.
NextRestart == Next \/ Restart

SpecRestart == Init /\ [][NextRestart]_vars

\* SpecScan: the service from its construction to the end of its scan, no call
\* made meanwhile, over directories with a file of either provider.
InitScan ==
    ConstructedOn({NoFile, StoredFile(KeyA)} \cup ForeignFiles,
                  {NoFile, StoredFile(KeyA)} \cup ForeignFiles)

NextScan == ScanReaddir \/ ScanNext \/ ScanRead \/ ScanResume

SpecScan == InitScan /\ [][NextScan]_vars

\* SpecHandler: the handlers of registerSecureApiKeyIpc, invoked one after the
\* other over a service that may settle in any way.
AllOutcomes == UNION {ServiceOutcomes(op) : op \in HandlerOps}

NextHandler ==
    \/ \E in \in HandlerInputs : HandlerInvoke("c1", in[1], in[2], in[3])
    \/ \E outcome \in AllOutcomes : ServiceSettles("c1", outcome)
    \/ HandlerReplies("c1")

SpecHandler == Constructed({NoFile}) /\ [][NextHandler]_vars

\* SpecRenderer: ApiKeyServiceRenderer.storeKey, called again and again over a
\* bridge that may settle in any way.
NextRenderer ==
    \/ \E in \in StoreInputs : RendererStoreKey("c1", in[1], in[2])
    \/ \E outcome \in BridgeOutcomes : BridgeSettles("c1", outcome)
    \/ RendererStoreResume("c1")

SpecRenderer == Constructed({NoFile}) /\ [][NextRenderer]_vars

\* SpecValidate: validateApiKeyFormat called with one of the sample
\* identifiers and one of the sample keys.
InitValidate ==
    /\ loadedKeyMetadata = [i \in Ids |-> Undefined]
    /\ files = [p \in Paths |-> NoFile]
    /\ encryptionAvailable = TRUE
    /\ readOnly = FALSE
    /\ calls \in {[c \in Calls |->
                      IF c = "c1"
                      THEN [IdleCall EXCEPT !.op = "validateApiKeyFormat", !.id = i,
                                            !.key = k, !.pc = "called"]
                      ELSE IdleCall] : i \in SampleIds, k \in SampleKeys}
    /\ scan = NoScan
    /\ last = [i \in Ids |-> Unknown]
    /\ started = 0

NextValidate == ValidateApiKeyFormat("c1")

SpecValidate == InitValidate /\ [][NextValidate]_vars

\* SpecRace: one caller on openai whose calls do not wait for the scan.
NextRace ==
    \/ \E k \in {KeyA, KeyB} : StoreKey("c1", OpenAI, k)
    \/ DeleteKey("c1", OpenAI)
    \/ IsKeyStored("c1", OpenAI)
    \/ GetStoredProviderIds("c1")
    \/ GetApiKeyDisplayInfo("c1", OpenAI)
    \/ \E cb \in Callbacks : WithDecryptedKey("c1", OpenAI, cb)
    \/ Continue

SpecRace == Constructed({NoFile, StoredFile(KeyA)}) /\ [][NextRace]_vars

\* SpecTorn: over the record of KeyA, one caller stores KeyB on openai while
\* another uses the key, after the scan.
NextTorn ==
    \/ Quiet /\ StoreKey("c1", OpenAI, KeyB)
    \/ Quiet /\ WithDecryptedKey("c2", OpenAI, "identity")
    \/ StoreOpen("c1") \/ StoreWrite("c1") \/ StoreResume("c1")
    \/ WithDecryptedKeyAccess("c2") \/ WithDecryptedKeyRead("c2")
    \/ WithDecryptedKeyOperation("c2")
    \/ ScanReaddir \/ ScanNext \/ ScanRead \/ ScanResume

SpecTorn == Constructed({StoredFile(KeyA)}) /\ [][NextTorn]_vars

\* SpecFrame: a caller on mistral or './openai' beside a caller on openai,
\* their calls overlapping, after the scan.
FrameIds == {Mistral, Alias}

NextFrame ==
    \/ \E i \in FrameIds : Quiet /\ StoreKey("c1", i, KeyA)
    \/ \E i \in FrameIds : Quiet /\ DeleteKey("c1", i)
    \/ \E k \in {KeyA, KeyB} : Quiet /\ StoreKey("c2", OpenAI, k)
    \/ Quiet /\ DeleteKey("c2", OpenAI)
    \/ \E c \in Calls : StoreOpen(c)
    \/ \E c \in Calls : StoreWrite(c)
    \/ \E c \in Calls : StoreResume(c)
    \/ \E c \in Calls : DeleteUnlink(c)
    \/ ScanReaddir
    \/ ScanNext
    \/ ScanRead
    \/ ScanResume

InitFrame == ConstructedOn({NoFile, StoredFile(KeyA)}, {NoFile, StoredFile(KeyA)})

SpecFrame == InitFrame /\ [][NextFrame]_vars

\* SpecStartup: a caller that stores, asks and lists on openai from the moment
\* the service is constructed, and never deletes. The scan's awaits settle and
\* the event loop runs what waits for them: each of its steps, once possible,
\* is taken.
InitStartup ==
    ConstructedOn({NoFile, StoredFile(KeyA), NotJsonFile}, {NoFile, StoredFile(KeyA)})

NextStartup ==
    \/ \E k \in {KeyA, KeyB} : StoreKey("c1", OpenAI, k)
    \/ IsKeyStored("c1", OpenAI)
    \/ GetStoredProviderIds("c1")
    \/ GetApiKeyDisplayInfo("c1", OpenAI)
    \/ StoreOpen("c1")
    \/ StoreWrite("c1")
    \/ StoreResume("c1")
    \/ IsKeyStoredAccess("c1")
    \/ IsKeyStoredRead("c1")
    \/ IsKeyStoredResume("c1")
    \/ DisplayInfoRead("c1")
    \/ DisplayInfoResume("c1")
    \/ ScanReaddir
    \/ ScanNext
    \/ ScanRead
    \/ ScanResume

ScanRuns ==
    /\ WF_vars(ScanReaddir)
    /\ WF_vars(ScanNext)
    /\ WF_vars(ScanRead)
    /\ WF_vars(ScanResume)

SpecStartup == InitStartup /\ [][NextStartup]_vars /\ ScanRuns

\* SpecPair: Spec's caller, whose calls take the two slots in turn, so that the
\* outcome of a call stays in view while the next one runs.
Turn(c) ==
    /\ \A d \in Calls : ~InFlight(d)
    /\ (c = "c1") = (started % 2 = 0)

NextPair ==
    \/ \E c \in Calls, in \in StoreInputs : Quiet /\ Turn(c) /\ StoreKey(c, in[1], in[2])
    \/ \E c \in Calls, i \in Ids : Quiet /\ Turn(c) /\ DeleteKey(c, i)
    \/ \E c \in Calls, i \in Ids : Quiet /\ Turn(c) /\ IsKeyStored(c, i)
    \/ \E c \in Calls : Quiet /\ Turn(c) /\ GetStoredProviderIds(c)
    \/ \E c \in Calls, i \in Ids : Quiet /\ Turn(c) /\ GetApiKeyDisplayInfo(c, i)
    \/ \E c \in Calls, in \in DecryptInputs :
          Quiet /\ Turn(c) /\ WithDecryptedKey(c, in[1], in[2])
    \/ Continue

SpecPair == Init /\ [][NextPair]_vars

\* SpecStore: storeKey called once at a time after the scan, the calls
\* alternating between the two slots, over a directory that loses and regains
\* its write permission or runs full and an encryption that comes and goes or
\* throws.
NextStore ==
    \/ \E c \in Calls, in \in StoreInputs :
          Quiet /\ Turn(c) /\ StoreKey(c, in[1], in[2])
    \/ \E c \in Calls, in \in StoreInputs :
          Quiet /\ Turn(c) /\ StoreKeyEncryptThrows(c, in[1], in[2])
    \/ \E c \in Calls : StoreOpen(c)
    \/ \E c \in Calls : StoreWrite(c)
    \/ \E c \in Calls : StoreWriteFails(c)
    \/ \E c \in Calls : StoreResume(c)
    \/ ScanReaddir
    \/ ScanNext
    \/ ScanRead
    \/ ScanResume
    \/ ToggleEncryption
    \/ ToggleReadOnly

SpecStore == Constructed({NoFile, StoredFile(KeyA)}) /\ [][NextStore]_vars

\* SpecOverlap: two callers on openai whose calls may overlap, after the scan.
InitOverlap == Constructed({NoFile, StoredFile(KeyA)})

Slot(c) == c = "c1" \/ InFlight("c1")

NextOverlap ==
    \/ \E c \in Calls, k \in Keys : Quiet /\ Slot(c) /\ StoreKey(c, OpenAI, k)
    \/ \E c \in Calls : Quiet /\ Slot(c) /\ DeleteKey(c, OpenAI)
    \/ \E c \in Calls : Quiet /\ Slot(c) /\ IsKeyStored(c, OpenAI)
    \/ \E c \in Calls : Quiet /\ Slot(c) /\ GetStoredProviderIds(c)
    \/ \E c \in Calls : Quiet /\ Slot(c) /\ GetApiKeyDisplayInfo(c, OpenAI)
    \/ \E c \in Calls, cb \in Callbacks : Quiet /\ Slot(c) /\ WithDecryptedKey(c, OpenAI, cb)
    \/ Continue

SpecOverlap == InitOverlap /\ [][NextOverlap]_vars

\* ------------------------------------------------------------------------
\* Properties
\* ------------------------------------------------------------------------

\* Call c was op and has settled.
Done(c, op) == calls[c].op = op /\ calls[c].pc = "done"

\* Call c ran alone on its identifier after a storeKey of some key that
\* resolved, itself alone, with no storeKey or deleteKey started since.
AfterStore(c) ==
    /\ calls[c].conc = {}
    /\ calls[c].pre[1] = "stored"
    /\ calls[c].pre[3] = {}

\* C1: round trip. A withDecryptedKey(i, identity) that runs alone after
\* storeKey(i, s) resolved, and finds the encryption available, resolves with
\* exactly s.
C1_RoundTrip ==
    \A c \in Calls :
        (/\ Done(c, "withDecryptedKey")
         /\ calls[c].cb = "identity"
         /\ AfterStore(c)
         /\ calls[c].log # "OS-level encryption is not available for decryption")
        => calls[c].res = Resolved(Str(calls[c].pre[2]))

\* C1's case: the key stored by an earlier storeKey came back.
C1_Witness ==
    \E c \in Calls :
        /\ Done(c, "withDecryptedKey")
        /\ calls[c].cb = "identity"
        /\ AfterStore(c)
        /\ calls[c].pre[2] = KeyB
        /\ calls[c].res = Resolved(Str(KeyB))

\* Call c ran alone on its identifier after a deleteKey that resolved, itself
\* alone, with no storeKey or deleteKey started since.
AfterDelete(c) ==
    /\ calls[c].conc = {}
    /\ calls[c].pre = <<"deleted", {}>>

\* C2: once deleteKey(i) has resolved with nothing concurrent on i,
\* isKeyStored(i) answers false and withDecryptedKey(i, _) rejects with the
\* not-found error without calling the operation.
C2_DeletedThenAbsent ==
    \A c \in Calls :
        /\ (Done(c, "isKeyStored") /\ AfterDelete(c))
           => calls[c].res = Resolved(Bool(FALSE))
        /\ (Done(c, "withDecryptedKey") /\ AfterDelete(c))
           => /\ calls[c].res = Rejected(ASE, NotUsableMsg(calls[c].id))
              /\ calls[c].arg = Undefined

\* Both calls are storeKey on i, overlapped each other and nothing else, and
\* both resolved.
BothStored(i) ==
    \A c \in Calls :
        /\ Done(c, "storeKey")
        /\ calls[c].id = i
        /\ calls[c].conc = {"storeKey"}
        /\ calls[c].res = Resolved(Void)

\* C3: after two overlapping storeKey(i, _) have both resolved, the file is
\* wholly the record of the one that resolved last, and the cached
\* lastFourChars is that key's.
C3_LastStoreWhole ==
    \A i \in Ids :
        (BothStored(i) /\ last[i][1] = "stored")
        => /\ files[GetFilePath(i)] = StoredFile(last[i][2])
           /\ loadedKeyMetadata[i] = LastFourChars(last[i][2])

\* The identifier contains '..' or a path separator.
Unsafe(id) ==
    \/ \E n \in 1..Len(id) : id[n] \in {"/", "\\"}
    \/ \E n \in 1..(Len(id) - 1) : id[n] = "." /\ id[n + 1] = "."

FilesystemCalls == {"access", "readFile", "writeFile", "unlink"}

\* C4: a call with an identifier that contains '..' or a path separator makes
\* no filesystem access and rejects with ApiKeyStorageError.
C4_UnsafeIdentifierRejected ==
    \A c \in Calls :
        (calls[c].pc # "idle" /\ Unsafe(calls[c].id))
        => /\ calls[c].io \cap FilesystemCalls = {}
           /\ calls[c].pc = "done"
           /\ calls[c].res[1] = "rejected"
           /\ calls[c].res[2] = ASE

\* Another valid secret with the same last four characters.
SwapSecret(k) == IF k = KeyA THEN KeyLong ELSE IF k = KeyLong THEN KeyA ELSE k

\* The file as it would be had the other secret been stored: the same record
\* with the encrypted blob of the other secret.
Twin(file) ==
    IF ~file.exists \/ ~file.text.ok \/ file.text.obj.encryptedKey[1] # "b64" THEN file
    ELSE LET obj == file.text.obj
             blob == ToBase64(EncryptString(SwapSecret(FromBase64(obj.encryptedKey)[2])))
         IN  [exists |-> TRUE,
              text |-> [Stringify([obj EXCEPT !.encryptedKey = blob])
                           EXCEPT !.junk = file.text.junk]]

\* What the operations other than withDecryptedKey compute from a file: whether
\* it exists, what unlink does, what goes into the cache, and what isKeyStored
\* and getApiKeyDisplayInfo answer, in process and over IPC.
Outputs(file) ==
    <<file.exists, UnlinkResult(file), LastFourCharsIn(file),
      IsKeyStoredAnswer(file), DisplayInfoOf(file),
      IpcResponse("isKeyStored", Resolved(IsKeyStoredAnswer(file))),
      IpcResponse("getApiKeyDisplayInfo", Resolved(DisplayInfoOf(file)))>>

\* The results that can be built from identifier i, the cache and the error
\* texts alone, with nothing of a secret in them but the cached lastFourChars.
PublicResults(i) ==
    {Resolved(Void), Resolved(<<"success", TRUE>>),
     Resolved(Bool(TRUE)), Resolved(Bool(FALSE)),
     Resolved(IdList(StoredProviderIds)),
     Resolved(Info(FALSE, Undefined)),
     Resolved(Info(TRUE, IF i \in Ids THEN loadedKeyMetadata[i] ELSE Undefined)),
     Rejected(ASE, InvalidFormatMsg(i)),
     Rejected(ASE, UnavailableMsg),
     Rejected(ASE, StoreFailedMsg(i, "EACCES"))}

\* C5: what storeKey, deleteKey, isKeyStored, getStoredProviderIds and
\* getApiKeyDisplayInfo read of a file is the same for the file and for that
\* file with another secret of the same last four characters, for every file
\* on disk and every file a call or the scan has read; and what they have
\* returned, in process and over IPC, is built from the identifier, the cache
\* and the error texts alone.
C5_SecretIndependent ==
    /\ \A p \in Paths : Outputs(Twin(files[p])) = Outputs(files[p])
    /\ \A c \in Calls : Outputs(Twin(calls[c].buf)) = Outputs(calls[c].buf)
    /\ Outputs(Twin(scan.buf)) = Outputs(scan.buf)
    /\ \A c \in Calls :
          (calls[c].pc = "done" /\ calls[c].op # "withDecryptedKey")
          => /\ calls[c].res \in PublicResults(calls[c].id)
             /\ IpcResponse(calls[c].op, calls[c].res) \in PublicResults(calls[c].id)

\* C5's case: getApiKeyDisplayInfo has read a record that holds a secret and is
\* about to answer from it.
C5_Witness ==
    \E c \in Calls :
        /\ calls[c].op = "getApiKeyDisplayInfo"
        /\ calls[c].pc = "resume"
        /\ Twin(calls[c].buf) # calls[c].buf
        /\ DisplayInfoOf(calls[c].buf) = Info(TRUE, LastFourChars(KeyA))

\* The secret a file holds: what its encrypted blob decrypts to, Undefined when
\* it holds none.
StoredSecret(file) ==
    IF \/ ~file.exists
       \/ ParseThrows(file.text)
       \/ ~Truthy(JsonParse(file.text).encryptedKey)
       \/ DecryptThrows(FromBase64(JsonParse(file.text).encryptedKey))
    THEN Undefined
    ELSE DecryptString(FromBase64(JsonParse(file.text).encryptedKey))

\* C6: the lastFourChars getApiKeyDisplayInfo(i) returns is at most four
\* characters long and is the last min(4, |s|) characters of the secret s that
\* i's file holds.
C6_AtMostLastFour ==
    \A c \in Calls :
        (Done(c, "getApiKeyDisplayInfo") /\ calls[c].res[2][2] = TRUE)
        => LET l4 == calls[c].res[2][3]
               s == StoredSecret(files[GetFilePath(calls[c].id)])
           IN  /\ Len(l4) <= 4
               /\ s # Undefined => l4 = SliceLast(s, Min(4, Len(s)))

\* C7: withDecryptedKey hands the operation only a key that it read, found the
\* encryption available for, decrypted, and that passes the validator of its
\* identifier; when one of its checks fails it rejects with ApiKeyStorageError
\* and the operation was not called.
C7_OperationGetsValidKey ==
    \A c \in Calls :
        calls[c].op = "withDecryptedKey"
        => /\ calls[c].pc = "operation" => calls[c].arg # Undefined
           /\ calls[c].arg # Undefined
              => /\ ValidateApiKey(calls[c].id, calls[c].arg)
                 /\ {"access", "readFile", "isEncryptionAvailable", "decryptString"}
                       \subseteq calls[c].io
           /\ (calls[c].pc = "done" /\ calls[c].log # "none")
              => /\ calls[c].arg = Undefined
                 /\ calls[c].res = Rejected(ASE, NotUsableMsg(calls[c].id))

\* C7's case: the record decrypted to a value the validator refuses.
C7_Witness ==
    \E c \in Calls :
        /\ Done(c, "withDecryptedKey")
        /\ calls[c].log = "Invalid API key format found"
        /\ calls[c].arg = Undefined
        /\ calls[c].res[1] = "rejected"

\* C8: when the operation was called, withDecryptedKey settles as it did: with
\* its error, not an ApiKeyStorageError, or with its result.
C8_OperationOutcomeUnchanged ==
    \A c \in Calls :
        (Done(c, "withDecryptedKey") /\ calls[c].arg # Undefined)
        => /\ calls[c].cb = "throws"
              => calls[c].res = Rejected("Error", <<"operation failed">>)
           /\ calls[c].cb = "constant"
              => calls[c].res = Resolved(Str(<<"s","u","c","c","e","s","s">>))
           /\ calls[c].cb = "identity"
              => calls[c].res = Resolved(Str(calls[c].arg))

\* C8's case: the operation was called and failed.
C8_Witness ==
    \E c \in Calls :
        /\ Done(c, "withDecryptedKey")
        /\ calls[c].arg # Undefined
        /\ calls[c].cb = "throws"
        /\ calls[c].res[1] = "rejected"

\* C9: a storeKey(i, s) whose s the validator of i refuses, or whose i is not
\* registered, rejects at once with ApiKeyStorageError, having called neither
\* safeStorage nor the filesystem, and leaves the cache and every file as
\* they were.
C9_InvalidKeyRejectedBeforeIO ==
    [][\A c \in Calls, in \in StoreInputs :
          (StoreKey(c, in[1], in[2]) /\ ~ValidateApiKey(in[1], in[2]))
          => /\ calls'[c].pc = "done"
             /\ calls'[c].res = Rejected(ASE, InvalidFormatMsg(in[1]))
             /\ calls'[c].io = {}
             /\ files' = files
             /\ loadedKeyMetadata' = loadedKeyMetadata]_vars

\* C9's case: storeKey('openai', 'invalid-key') was refused over an existing
\* record.
C9_Witness ==
    \E c \in Calls :
        /\ Done(c, "storeKey")
        /\ calls[c].id = OpenAI
        /\ calls[c].key = KeyBad
        /\ calls[c].res = Rejected(ASE, InvalidFormatMsg(OpenAI))
        /\ files[GetFilePath(OpenAI)] = StoredFile(KeyA)

\* C10: a storeKey(i, s) with a valid s while the encryption is unavailable
\* rejects at once with the encryption-unavailable ApiKeyStorageError, having
\* encrypted and written nothing, and leaves the cache and every file as they
\* were.
C10_UnavailableRejected ==
    [][\A c \in Calls, in \in StoreInputs :
          (StoreKey(c, in[1], in[2]) /\ ValidateApiKey(in[1], in[2])
           /\ ~encryptionAvailable)
          => /\ calls'[c].pc = "done"
             /\ calls'[c].res = Rejected(ASE, UnavailableMsg)
             /\ calls'[c].io \cap {"encryptString", "writeFile"} = {}
             /\ files' = files
             /\ loadedKeyMetadata' = loadedKeyMetadata]_vars

\* C10's case: a valid key was refused while the encryption was unavailable,
\* over an existing record.
C10_Witness ==
    \E c \in Calls :
        /\ Done(c, "storeKey")
        /\ calls[c].key = KeyB
        /\ ~encryptionAvailable
        /\ calls[c].res = Rejected(ASE, UnavailableMsg)
        /\ files[GetFilePath(OpenAI)] = StoredFile(KeyA)
        /\ loadedKeyMetadata[OpenAI] = LastFourChars(KeyA)

\* C11: an isKeyStored(i) that runs alone after storeKey(i, s) resolved, with
\* no deleteKey(i) since, answers true: on the service that stored, from the
\* cache without touching the filesystem, and on a service constructed later
\* over the same storage root, once its scan is over.
C11_StoredThenPresent ==
    \A c \in Calls :
        (Done(c, "isKeyStored") /\ AfterStore(c))
        => /\ calls[c].res = Resolved(Bool(TRUE))
           /\ calls[c].pre[4] = scan.instance => calls[c].io = {}

\* C11's case: the key was stored by the first service and isKeyStored was
\* asked of the second.
C11_Witness ==
    \E c \in Calls :
        /\ Done(c, "isKeyStored")
        /\ AfterStore(c)
        /\ calls[c].pre[4] = 1
        /\ scan.instance = 2
        /\ scan.pc = "done"
        /\ calls[c].res = Resolved(Bool(TRUE))

\* C12: deleteKey(i) is idempotent and a missing file is no error. A deleteKey
\* that finds no cache entry leaves the cache as it is; its unlink, when the
\* file is missing, resolves the call, logs nothing and changes nothing; and
\* when a deleteKey that ran alone has resolved, the cache has no entry for i
\* and the file is missing or cannot be removed, so that a second deleteKey
\* changes nothing.
C12_DeleteIdempotent ==
    [][\A c \in Calls :
          /\ \A i \in Ids :
                (DeleteKey(c, i) /\ loadedKeyMetadata[i] = Undefined)
                => (loadedKeyMetadata' = loadedKeyMetadata /\ files' = files)
          /\ (DeleteUnlink(c) /\ ~files[GetFilePath(calls[c].id)].exists)
             => /\ calls'[c].pc = "done"
                /\ calls'[c].res = Resolved(Void)
                /\ calls'[c].log = "none"
                /\ files' = files
                /\ loadedKeyMetadata' = loadedKeyMetadata
          /\ (DeleteUnlink(c) /\ (~files[GetFilePath(calls[c].id)].exists \/ readOnly))
             => (files' = files /\ loadedKeyMetadata' = loadedKeyMetadata)
          /\ (DeleteUnlink(c) /\ calls[c].conc = {})
             => /\ loadedKeyMetadata'[calls[c].id] = Undefined
                /\ ~files'[GetFilePath(calls[c].id)].exists \/ readOnly']_vars

\* C12's case: a second deleteKey('openai') resolved, the file being gone.
C12_Witness ==
    \E c \in Calls :
        /\ Done(c, "deleteKey")
        /\ calls[c].id = OpenAI
        /\ AfterDelete(c)
        /\ ~readOnly
        /\ calls[c].res = Resolved(Void)
        /\ calls[c].log = "none"
        /\ ~files[GetFilePath(OpenAI)].exists

\* C13: a deleteKey whose unlink failed with an error other than ENOENT does
\* not resolve: it rejects.
C13_UnlinkFailureSignalled ==
    \A c \in Calls :
        (Done(c, "deleteKey") /\ calls[c].log = "Failed to delete API key file")
        => calls[c].res[1] = "rejected"

\* Why a withDecryptedKey that has settled did not call the operation, from the
\* calls it made and the message it logged.
Cause(c) ==
    IF "readFile" \notin calls[c].io THEN "NotFound"
    ELSE IF calls[c].log = "OS-level encryption is not available for decryption"
    THEN "EncryptionUnavailable"
    ELSE IF calls[c].log = "Invalid API key format found" THEN "InvalidFormat"
    ELSE "Corrupt"

\* Call c was withDecryptedKey and rejected without calling the operation.
Refused(c) ==
    /\ Done(c, "withDecryptedKey")
    /\ calls[c].arg = Undefined
    /\ calls[c].res[1] = "rejected"

\* C14: withDecryptedKey's own failures tell their cause: two calls on the
\* same identifier that failed for different causes (no file, a corrupt
\* record, encryption unavailable, an invalid decrypted value) reject with
\* different errors.
C14_CauseDistinguishable ==
    \A c, d \in Calls :
        (Refused(c) /\ Refused(d) /\ calls[c].id = calls[d].id /\ Cause(c) # Cause(d))
        => calls[c].res # calls[d].res

\* Call c was isKeyStored, missed the cache and has settled.
Missed(c) == Done(c, "isKeyStored") /\ calls[c].io # {}

\* C15: an isKeyStored that missed the cache answers true exactly when the
\* identifier's file exists, readable and parseable or not; the cache then has
\* the file's lastFourChars when the record carries one and no entry
\* otherwise, and no step of the call changes another entry or a file.
C15_MissFollowsFile ==
    /\ [](\A c \in Calls :
            Missed(c)
            => LET file == files[GetFilePath(calls[c].id)]
               IN  /\ calls[c].res = Resolved(Bool(file.exists))
                   /\ loadedKeyMetadata[calls[c].id] = LastFourCharsIn(file))
    /\ [][\A c \in Calls :
            (IsKeyStoredAccess(c) \/ IsKeyStoredRead(c) \/ IsKeyStoredResume(c))
            => /\ files' = files
               /\ \A j \in Ids \ {calls[c].id} :
                     loadedKeyMetadata'[j] = loadedKeyMetadata[j]]_vars

\* C15's case: isKeyStored('openai') answered true on a file that is not JSON,
\* and the cache has no entry.
C15_Witness ==
    \E c \in Calls :
        /\ Missed(c)
        /\ calls[c].id = OpenAI
        /\ files[GetFilePath(OpenAI)] = NotJsonFile
        /\ calls[c].res = Resolved(Bool(TRUE))
        /\ loadedKeyMetadata[OpenAI] = Undefined

\* The file gives no metadata: it is missing, is not JSON, or its record has
\* no lastFourChars.
NoMetadataIn(file) ==
    \/ ~file.exists
    \/ ParseThrows(file.text)
    \/ ~Truthy(JsonParse(file.text).lastFourChars)

\* C16: getApiKeyDisplayInfo never rejects. On a cache hit it returns
\* isStored: true with the cached lastFourChars and touches no file; on a miss
\* it reads the file and returns isStored: false, leaving the cache without
\* the entry, when the file gives no metadata, and else returns the file's
\* lastFourChars and the cache has gained them.
C16_DisplayInfoFallback ==
    \A c \in Calls :
        Done(c, "getApiKeyDisplayInfo")
        => LET i == calls[c].id
               file == files[GetFilePath(i)]
           IN  /\ calls[c].res[1] = "resolved"
               /\ calls[c].io = {}
                  => /\ loadedKeyMetadata[i] # Undefined
                     /\ calls[c].res = Resolved(Info(TRUE, loadedKeyMetadata[i]))
               /\ (calls[c].io # {} /\ NoMetadataIn(file))
                  => /\ calls[c].res = Resolved(Info(FALSE, Undefined))
                     /\ loadedKeyMetadata[i] = Undefined
               /\ (calls[c].io # {} /\ ~NoMetadataIn(file))
                  => /\ calls[c].res
                          = Resolved(Info(TRUE, JsonParse(file.text).lastFourChars))
                     /\ loadedKeyMetadata[i] = JsonParse(file.text).lastFourChars

\* C16's case: getApiKeyDisplayInfo('openai') missed the cache, read a record
\* with lastFourChars, returned them and filled the cache.
C16_Witness ==
    \E c \in Calls :
        /\ Done(c, "getApiKeyDisplayInfo")
        /\ calls[c].id = OpenAI
        /\ calls[c].io = {"readFile"}
        /\ calls[c].res = Resolved(Info(TRUE, loadedKeyMetadata[OpenAI]))
        /\ loadedKeyMetadata[OpenAI] # Undefined

\* Under SpecPair: the slot of the call made last, and of the one before it.
Latest == IF started % 2 = 1 THEN "c1" ELSE "c2"
Previous == IF started % 2 = 1 THEN "c2" ELSE "c1"

\* C17: getStoredProviderIds returns exactly the identifiers that have a cache
\* entry; made right after a storeKey(i, s) that resolved the list has i, and
\* made right after a deleteKey(i) that completed it has not.
C17_ListIsCacheKeys ==
    (started > 0 /\ Done(Latest, "getStoredProviderIds"))
    => LET list == calls[Latest].res[2][2]
       IN  /\ calls[Latest].res
                = Resolved(IdList({i \in Ids : loadedKeyMetadata[i] # Undefined}))
           /\ (Done(Previous, "storeKey") /\ calls[Previous].res = Resolved(Void))
              => calls[Previous].id \in list
           /\ Done(Previous, "deleteKey") => calls[Previous].id \notin list

\* C17's case: getStoredProviderIds right after a deleteKey('openai') that
\* could not remove the file: the list has no openai.
C17_Witness ==
    /\ started > 0
    /\ Done(Latest, "getStoredProviderIds")
    /\ Done(Previous, "deleteKey")
    /\ calls[Previous].id = OpenAI
    /\ files[GetFilePath(OpenAI)] = StoredFile(KeyA)
    /\ OpenAI \notin calls[Latest].res[2][2]

\* C18: in the startup scan a file that cannot be parsed or has no metadata
\* does not end the loop: the files still to do stay to do, and when the scan
\* is done every registered identifier whose file parses and carries
\* lastFourChars has its cache entry.
C18_ScanOutlivesFailure ==
    /\ [](scan.pc = "done"
          => \A i \in Ids :
                (GetProvider(i) /\ ~NoMetadataIn(files[GetFilePath(i)]))
                => loadedKeyMetadata[i] = JsonParse(files[GetFilePath(i)].text).lastFourChars)
    /\ [][(scan.pc = "resume" /\ NoMetadataIn(scan.buf) /\ scan' # scan)
            => (scan'.pc = "loop" /\ scan'.todo = scan.todo)]_vars

\* C18's case: the scan is done over an openai.json that is not JSON and a
\* mistral.json with metadata, and mistral has its entry.
C18_Witness ==
    /\ scan.pc = "done"
    /\ files[GetFilePath(OpenAI)] = NotJsonFile
    /\ files[GetFilePath(Mistral)] = StoredFile(KeyA)
    /\ loadedKeyMetadata[OpenAI] = Undefined
    /\ loadedKeyMetadata[Mistral] = LastFourChars(KeyA)

\* C19: during and after the startup scan, an identifier has a cache entry
\* only if it is registered and the record in its file <id>.json has
\* lastFourChars, and the entry is that field.
C19_ScanEntriesRegistered ==
    \A i \in Ids :
        loadedKeyMetadata[i] # Undefined
        => /\ GetProvider(i)
           /\ ~NoMetadataIn(files[GetFilePath(i)])
           /\ loadedKeyMetadata[i] = JsonParse(files[GetFilePath(i)].text).lastFourChars

\* C19's case: the scan is done over x.json, whose record has lastFourChars but
\* whose name is no provider, a mistral.json without metadata and an
\* openai.json with it: openai alone has an entry.
C19_Witness ==
    /\ scan.pc = "done"
    /\ ~NoMetadataIn(files[GetFilePath(Unlisted)])
    /\ files[GetFilePath(Mistral)] = NoMetadataFile
    /\ loadedKeyMetadata[OpenAI] # Undefined
    /\ loadedKeyMetadata[Mistral] = Undefined
    /\ loadedKeyMetadata[Unlisted] = Undefined

\* C20: a call with an identifier no provider is registered under makes no
\* filesystem access and rejects with ApiKeyStorageError, whichever of
\* storeKey, deleteKey, isKeyStored, getApiKeyDisplayInfo and withDecryptedKey
\* it is.
C20_UnregisteredRejected ==
    \A c \in Calls :
        (/\ calls[c].op \in {"storeKey", "deleteKey", "isKeyStored",
                              "getApiKeyDisplayInfo", "withDecryptedKey"}
         /\ ~GetProvider(calls[c].id))
        => /\ calls[c].io \cap FilesystemCalls = {}
           /\ calls[c].pc = "done"
           /\ calls[c].res[1] = "rejected"
           /\ calls[c].res[2] = ASE

\* C21: a handler given a providerId that is no provider does not call the
\* service method and rejects with ApiKeyStorageError.
C21_HandlerRejectsInvalidProvider ==
    \A c \in Calls :
        (/\ calls[c].op \in HandlerOps \ {"getStoredProviderIds"}
         /\ ~GetProvider(calls[c].id))
        => /\ calls[c].pc = "done"
           /\ calls[c].res = Pending
           /\ calls[c].reply[1] = "rejected"
           /\ calls[c].reply[2] = ASE

\* C22: a handler that has answered rejects with the service's
\* ApiKeyStorageError as it was, rejects with an ApiKeyStorageError whose
\* message starts with the handler's own prefix when the service threw
\* anything else, and resolves only when the service call resolved.
C22_HandlerErrors ==
    \A c \in Calls :
        (calls[c].op \in HandlerOps /\ calls[c].pc = "done")
        => LET res == calls[c].res
               reply == calls[c].reply
           IN  /\ (res[1] = "rejected" /\ res[2] = ASE) => reply = res
               /\ (res[1] = "rejected" /\ res[2] # ASE)
                  => /\ reply[1] = "rejected"
                     /\ reply[2] = ASE
                     /\ reply[3][1] = IpcPrefix(calls[c].op)
               /\ reply[1] = "resolved" => res[1] = "resolved"

\* C22's case: the isKeyStored handler answered a service call that rejected
\* with an ApiKeyStorageError, by that error.
C22_Witness ==
    \E c \in Calls :
        /\ calls[c].op = "isKeyStored"
        /\ calls[c].pc = "done"
        /\ calls[c].res = Rejected(ASE, <<"Validation failed">>)
        /\ calls[c].reply = calls[c].res

\* C23: the renderer's storeKey, when the key fails validation for the
\* identifier, rejects with 'Invalid API key format' and has not called
\* bridge.storeKey; and when the bridge rejected or answered success: false,
\* it rejects with an ApiKeyStorageError.
C23_RendererStoreKey ==
    \A c \in Calls :
        (calls[c].op = "storeKey" /\ calls[c].pc # "idle")
        => /\ ~ValidateApiKey(calls[c].id, calls[c].key)
              => /\ calls[c].pc = "done"
                 /\ "bridge.storeKey" \notin calls[c].io
                 /\ calls[c].reply = Rejected(ASE, InvalidFormatMsg(calls[c].id))
           /\ (/\ calls[c].pc = "done"
               /\ \/ calls[c].res[1] = "rejected"
                  \/ calls[c].res = Resolved(<<"success", FALSE>>))
              => /\ calls[c].reply[1] = "rejected"
                 /\ calls[c].reply[2] = ASE

\* C23's case: the bridge answered success: false to a valid key, and the
\* renderer's storeKey rejected with an ApiKeyStorageError.
C23_Witness ==
    \E c \in Calls :
        /\ calls[c].op = "storeKey"
        /\ calls[c].pc = "done"
        /\ calls[c].key = KeyA
        /\ calls[c].res = Resolved(<<"success", FALSE>>)
        /\ calls[c].reply = Rejected(ASE, <<"Failed to store API key">>)

\* k is one of the prefixes followed by lo..hi characters, each a letter, a
\* digit, '_' or '-'.
WellFormed(k, prefixes, lo, hi) ==
    \E prefix \in prefixes :
        /\ Len(k) - Len(prefix) \in lo..hi
        /\ \A n \in 1..Len(k) :
              IF n <= Len(prefix) THEN k[n] = prefix[n]
              ELSE k[n] \in Upper \cup Lower \cup Digit \cup {"_", "-"}

\* The answer C24 gives for identifier i and key k.
ExpectedValid(i, k) ==
    \/ i = OpenAI /\ WellFormed(k, {<<"s","k","-">>, <<"o","r","g","-">>}, 32, 200)
    \/ i = Anthropic /\ WellFormed(k, {<<"s","k","-","a","n","t","-">>}, 24, Len(k))
    \/ i = Gemini /\ WellFormed(k, {<<"A","I">>}, 35, 45)
    \/ i = Mistral /\ WellFormed(k, {<<>>}, 32, 64)

\* C24: validateApiKey(i, k) is true exactly when i is a built-in provider and
\* k is that provider's prefix followed by a body of allowed characters of a
\* length in the provider's range; false for every other identifier.
C24_ValidatorsExact ==
    \A c \in Calls :
        Done(c, "validateApiKeyFormat")
        => calls[c].res = Resolved(Bool(ExpectedValid(calls[c].id, calls[c].key)))

\* C24's case: 'org-' and 200 allowed characters validated for openai.
C24_Witness ==
    \E c \in Calls :
        /\ Done(c, "validateApiKeyFormat")
        /\ calls[c].id = OpenAI
        /\ calls[c].key = <<"o","r","g","-">> \o Rep("a", 199) \o <<"_">>
        /\ calls[c].res = Resolved(Bool(TRUE))

\* The scan and every call have finished.
AllQuiet == scan.pc = "done" /\ \A c \in Calls : ~InFlight(c)

\* C25: when the scan and the calls have finished and the last thing done to
\* an identifier was a deleteKey that removed its file, whether or not the
\* scan was running then, the identifier has no cache entry and
\* getStoredProviderIds does not list it.
C25_ScanKeepsDelete ==
    \A i \in Ids :
        (AllQuiet /\ last[i][1] = "deleted" /\ ~files[GetFilePath(i)].exists)
        => /\ loadedKeyMetadata[i] = Undefined
           /\ i \notin StoredProviderIds

\* C26: when the scan and the calls have finished and the last thing done to
\* an identifier was a storeKey of s2 that resolved, whether or not the scan
\* was running then, the cache has the last four characters of s2, and so has
\* the record on disk.
C26_ScanKeepsStore ==
    \A i \in Ids :
        (AllQuiet /\ last[i][1] = "stored" /\ last[i][3] \subseteq {"scan"})
        => /\ loadedKeyMetadata[i] = LastFourChars(last[i][2])
           /\ LastFourCharsIn(files[GetFilePath(i)]) = loadedKeyMetadata[i]

\* C27: after a storeKey(i, s) that resolved and a deleteKey(i) whose unlink
\* met no error but not-found, the two having overlapped each other and
\* nothing else, cache and disk agree on i: the file is there and the cache
\* has the last four characters of s, or there is no file and no cache entry.
C27_StoreDeleteAgree ==
    \A c, d \in Calls :
        (/\ Done(c, "storeKey") /\ calls[c].res = Resolved(Void)
         /\ Done(d, "deleteKey") /\ calls[d].log = "none"
         /\ calls[c].id = calls[d].id
         /\ calls[c].conc = {"deleteKey"} /\ calls[d].conc = {"storeKey"})
        => LET i == calls[c].id
               file == files[GetFilePath(i)]
           IN  \/ /\ file.exists
                  /\ loadedKeyMetadata[i] = LastFourChars(calls[c].key)
               \/ /\ ~file.exists
                  /\ loadedKeyMetadata[i] = Undefined

\* C28: over the record of s1, a withDecryptedKey that overlaps nothing but
\* storeKey(i, s2) and finds the encryption available passes s1 or s2 to the
\* operation: it does not fail as corrupt or not found.
C28_NoTornRead ==
    \A c \in Calls :
        (/\ Done(c, "withDecryptedKey")
         /\ calls[c].log # "OS-level encryption is not available for decryption")
        => /\ calls[c].arg \in {KeyA, KeyB}
           /\ calls[c].res = Resolved(Str(calls[c].arg))

\* C29: storeKey updates the disk first and the cache second. No step of a
\* storeKey before its writeFile has resolved changes the cache; the one step
\* that sets the entry of i finds i's file holding the record of s and resolves
\* the call; and a storeKey that ends on a failed encryption or a failed write
\* rejects with an ApiKeyStorageError, the cache being what it was when the call
\* was made.
C29_DiskThenCache ==
    [][\A c \in Calls :
          /\ (\/ \E in \in StoreInputs : StoreKey(c, in[1], in[2])
              \/ \E in \in StoreInputs : StoreKeyEncryptThrows(c, in[1], in[2])
              \/ StoreOpen(c)
              \/ StoreWrite(c)
              \/ StoreWriteFails(c))
             => /\ loadedKeyMetadata' = loadedKeyMetadata
                /\ calls'[c].pc = "done"
                   => /\ calls'[c].res[1] = "rejected"
                      /\ calls'[c].res[2] = ASE
          /\ (calls[c].op = "storeKey" /\ InFlight(c)
              /\ loadedKeyMetadata' # loadedKeyMetadata)
             => /\ files[GetFilePath(calls[c].id)] = StoredFile(calls[c].key)
                /\ files' = files
                /\ loadedKeyMetadata' =
                      [loadedKeyMetadata EXCEPT ![calls[c].id] = LastFourChars(calls[c].key)]
                /\ calls'[c].pc = "done"
                /\ calls'[c].res = Resolved(Void)]_vars

\* C29's case: over the record of sk-...aaaa, the writeFile of a storeKey of
\* sk-...bbbb failed on a read-only directory: the call rejected and the cache
\* still holds 'aaaa'.
C29_Witness ==
    \E c \in Calls :
        /\ Done(c, "storeKey")
        /\ calls[c].key = KeyB
        /\ calls[c].res = Rejected(ASE, StoreFailedMsg(OpenAI, "EACCES"))
        /\ loadedKeyMetadata[OpenAI] = LastFourChars(KeyA)

\* C30: deleteKey updates the disk first and the cache second. While a
\* deleteKey(i) made alone after a storeKey(i, s) that resolved is running, and
\* once it has settled, there is no state where i's file exists while the
\* cache has no entry for i.
C30_DeleteDiskThenCache ==
    \A c \in Calls :
        (/\ calls[c].op = "deleteKey"
         /\ calls[c].pc \in {"unlink", "done"}
         /\ AfterStore(c)
         /\ calls[c].pre[4] = scan.instance)
        => ~(/\ files[GetFilePath(calls[c].id)].exists
             /\ loadedKeyMetadata[calls[c].id] = Undefined)

\* C31: every path a call reads, writes, checks or unlinks for its identifier
\* lies directly in the storage directory and is named <identifier>.json,
\* whatever the identifier.
C31_PathsInStorageDir ==
    \A c \in Calls :
        (calls[c].io \cap FilesystemCalls # {})
        => LET p == GetFilePath(calls[c].id)
           IN  /\ DirName(p) = StorageDir
               /\ p[Len(p)] = calls[c].id \o DotJson

\* C32: operations on different identifiers are independent. Every step of a
\* storeKey(i, _) or a deleteKey(i), whatever runs beside it, leaves the cache
\* entry and the file of every identifier j other than i as they were.
C32_OtherIdentifiersUntouched ==
    [][\A c \in Calls, i \in Ids \cup FrameIds :
          (\/ \E k \in Keys : StoreKey(c, i, k)
           \/ DeleteKey(c, i)
           \/ /\ calls[c].id = i
              /\ StoreOpen(c) \/ StoreWrite(c) \/ StoreResume(c) \/ DeleteUnlink(c))
          => \A j \in Ids \ {i} :
                 /\ loadedKeyMetadata'[j] = loadedKeyMetadata[j]
                 /\ files'[GetFilePath(j)] = files[GetFilePath(j)]]_vars

\* C33: the startup scan finishes, and stays finished; with no deleteKey made,
\* a registered identifier whose file gave the scan a record with lastFourChars
\* is in what getStoredProviderIds returns at every moment from the end of the
\* scan on.
C33_ScanFinishesAndLists ==
    /\ <>(scan.pc = "done")
    /\ [](scan.pc = "done" => [](scan.pc = "done"))
    /\ \A i \in {OpenAI, Mistral} :
          []((scan.pc = "resume" /\ scan.providerId = i /\ ~NoMetadataIn(scan.buf))
             => [](scan.pc = "done" => i \in StoredProviderIds))

\* C33's case: a getStoredProviderIds made while the scan was running left out
\* openai, whose record was on disk and which no call had backfilled; the scan
\* is now done and openai is listed.
C33_Witness ==
    /\ Done("c1", "getStoredProviderIds")
    /\ "scan" \in calls["c1"].conc
    /\ OpenAI \notin calls["c1"].res[2][2]
    /\ started = 1
    /\ files[GetFilePath(OpenAI)] = StoredFile(KeyA)
    /\ scan.pc = "done"
    /\ OpenAI \in StoredProviderIds

\* C34: an isKeyStored(i) made while the cache has an entry for i resolves at
\* once with true and touches no file, whatever i's file is at that moment.
C34_CacheHitAnswersTrue ==
    [][\A c \in Calls, i \in Ids :
          (IsKeyStored(c, i) /\ loadedKeyMetadata[i] # Undefined)
          => /\ calls'[c].pc = "done"
             /\ calls'[c].res = Resolved(Bool(TRUE))
             /\ calls'[c].io = {}
             /\ files' = files]_vars

\* C34's case: isKeyStored('openai') answered true from the cache, with no
\* filesystem call, while openai has no file: a deleteKey removed it and the
\* scan, which had read it before, put the entry back.
C34_Witness ==
    \E c \in Calls :
        /\ Done(c, "isKeyStored")
        /\ calls[c].id = OpenAI
        /\ calls[c].io = {}
        /\ calls[c].res = Resolved(Bool(TRUE))
        /\ ~files[GetFilePath(OpenAI)].exists

\* C35: when an isKeyStored(i) or a getApiKeyDisplayInfo(i) that missed the
\* cache and a deleteKey(i) that removed the file have overlapped and both have
\* completed, the cache has no entry for i.
C35_NoBackfillAfterDelete ==
    \A c, d \in Calls :
        (/\ Done(c, "isKeyStored") \/ Done(c, "getApiKeyDisplayInfo")
         /\ calls[c].io # {}
         /\ Done(d, "deleteKey")
         /\ calls[d].log = "none"
         /\ calls[d].id = calls[c].id
         /\ calls[c].conc = {"deleteKey"}
         /\ calls[d].conc = {calls[c].op}
         /\ ~files[GetFilePath(calls[c].id)].exists)
        => loadedKeyMetadata[calls[c].id] = Undefined

\* C36: with nothing in flight, isKeyStored(i) and getApiKeyDisplayInfo(i)
\* give the same boolean: of two such calls made one right after the other
\* on the same identifier, in either order, the answer of the one equals the
\* isStored of the other.
C36_StoredAnswersAgree ==
    (/\ started > 1
     /\ AllQuiet
     /\ {calls[Latest].op, calls[Previous].op} = {"isKeyStored", "getApiKeyDisplayInfo"}
     /\ calls[Latest].id = calls[Previous].id)
    => calls[Latest].res[2][2] = calls[Previous].res[2][2]

\* C37: in every state, every identifier that has a cache entry, and so every
\* element of what getStoredProviderIds returns, is registered in the
\* ProviderService.
C37_CacheKeysRegistered ==
    /\ \A i \in Ids : loadedKeyMetadata[i] # Undefined => GetProvider(i)
    /\ \A c \in Calls :
          Done(c, "getStoredProviderIds") => \A i \in calls[c].res[2][2] : GetProvider(i)

\* C38: sequential overwrite is last writer wins. When storeKey(i, s1) has
\* resolved and the storeKey(i, s2) made next has settled, then, if it
\* resolved, the file decrypts to s2 (what withDecryptedKey hands on) and the
\* cache has the last four characters of s2 (what getApiKeyDisplayInfo
\* returns); and if it rejected, the file is the record of s1 and the cache
\* has the last four characters of s1.
C38_LastWriterWins ==
    (/\ started > 1
     /\ AllQuiet
     /\ Done(Previous, "storeKey") /\ calls[Previous].res = Resolved(Void)
     /\ Done(Latest, "storeKey")
     /\ calls[Latest].id = calls[Previous].id)
    => LET i == calls[Latest].id
           file == files[GetFilePath(i)]
           s == IF calls[Latest].res = Resolved(Void)
                THEN calls[Latest].key ELSE calls[Previous].key
       IN  /\ file = StoredFile(s)
           /\ encryptionAvailable => GetDecryptedKey(i, file).key = s
           /\ loadedKeyMetadata[i] = LastFourChars(s)

====
